---- MODULE Spec2Model ----
(***************************************************************************)
(* Hydra: value model (run/value.rs), bytecode compiler (run/compiler.rs)  *)
(* and register interpreter (run/interpreter.rs).                          *)
(*                                                                         *)
(* Shared containers are Arc<Mutex<..>> handles: a container value holds   *)
(* a pointer p into `heap`; the heap cell holds the contents.              *)
(* Floats are modelled in halves: Float n stands for n/2.                  *)
(***************************************************************************)
EXTENDS Integers, Sequences, FiniteSets, TLC

VARIABLES
    heap,       \* Arc<Mutex<..>> cells of the shared containers, by handle
    operands,   \* the operands handed to a value operation
    applied,    \* the operation performed last ("none" at the start)
    outcome,    \* what the value operation returned
    compiler,   \* Compiler { frame_stack }
    cstatus,    \* "ok", or "panic" once a compiler call has panicked
    ret,        \* what the last compiler call returned
    ast,        \* the parsed chunk handed to lib.rs compile / run
    compiled,   \* the closure to run: compiled from ast, or built by hand
    interpreter,\* Interpreter { call_stack, globals }
    running     \* lib.rs run / Interpreter::run: status, offset, result

vars == <<heap, operands, applied, outcome, compiler, cstatus, ret,
          ast, compiled, interpreter, running>>

\* ------------------------------------------------------------------ bounds
MaxTupleLen == 3
MaxCode == 2
MaxConstants == 3
MaxFrames == 3
MaxHeap == 4
MaxDepth == 3
MaxStats == 2

\* ------------------------------------------------------------------ values
VNull == [t |-> "Null"]
VInt(n) == [t |-> "Int", i |-> n]
VFloat(halves) == [t |-> "Float", num |-> halves]
VBool(b) == [t |-> "Bool", b |-> b]
VChar(code) == [t |-> "Char", ch |-> code]
VString(s) == [t |-> "String", s |-> s]
VVector(p) == [t |-> "Vector", p |-> p]
VTuple(p) == [t |-> "Tuple", p |-> p]
VMap(p) == [t |-> "Map", p |-> p]
VFn(kind, p) == [t |-> "Fn", kind |-> kind, p |-> p]
VNativeObject(p) == [t |-> "NativeObject", p |-> p]
\* Option<String> of ErrorObject.path
NoPath == [some |-> FALSE, s |-> ""]
SomePath(s) == [some |-> TRUE, s |-> s]

\* heap cells
TupleCell(elems) == [cell |-> "Tuple", e |-> elems]
VectorCell(elems) == [cell |-> "Vector", e |-> elems]
\* a Pointer<dyn NativeObject>: what the object's typ() answers and what its
\* get(key) answers (a key outside `fields` gets None)
ObjectCell(type_name, fields) == [cell |-> "NativeObject", typ |-> type_name, fields |-> fields]
\* std_hydra ErrorObject { msg, path, ln }
ErrorObject(msg, path, line) ==
    ObjectCell("error",
               [key \in {"msg", "ln"} \cup (IF path.some THEN {"path"} ELSE {}) |->
                    CASE key = "msg" -> VString(msg)
                      [] key = "ln" -> VInt(line)
                      [] key = "path" -> VString(path.s)])
\* std_hydra IteratorObject { iter, fn_next }
IteratorObject(fn_next) ==
    ObjectCell("iterator", [key \in {"next"} |-> VFn("Native", fn_next)])

\* Value::typ.  A native object is asked for its own type name under its
\* lock; the guard is dropped before typ returns and nothing else in the
\* model holds an object's guard.
typ(h, v) ==
    CASE v.t = "Null" -> "null"
      [] v.t = "Int" -> "int"
      [] v.t = "Float" -> "float"
      [] v.t = "Bool" -> "bool"
      [] v.t = "Char" -> "char"
      [] v.t = "String" -> "str"
      [] v.t = "Vector" -> "vec"
      [] v.t = "Tuple" -> "tuple"
      [] v.t = "Map" -> "map"
      [] v.t = "Fn" -> "fn"
      [] v.t = "NativeObject" -> h[v.p].typ

\* impl PartialEq for Value.  The result is "true", "false", or "lock" when
\* the comparison locks a Mutex this thread already holds (std::sync::Mutex
\* then panics or deadlocks: eq does not return).  `held` is the set of tuple
\* handles whose guards are alive.
RECURSIVE eq(_, _, _, _)
RECURSIVE tuple_eq_from(_, _, _, _, _)
tuple_eq_from(h, le, re, idx, held) ==
    IF idx > Len(le) THEN "true"
    ELSE IF idx > Len(re) THEN "false"
    ELSE LET r == eq(h, le[idx], re[idx], held)
         IN IF r = "true" THEN tuple_eq_from(h, le, re, idx + 1, held) ELSE r

eq(h, l, r, held) ==
    CASE l.t = "Null" /\ r.t = "Null" -> "true"
      [] l.t = "Int" /\ r.t = "Int" -> IF l.i = r.i THEN "true" ELSE "false"
      [] l.t = "Float" /\ r.t = "Float" -> IF l.num = r.num THEN "true" ELSE "false"
      [] l.t = "Int" /\ r.t = "Float" -> IF 2 * l.i = r.num THEN "true" ELSE "false"
      [] l.t = "Float" /\ r.t = "Int" -> IF l.num = 2 * r.i THEN "true" ELSE "false"
      [] l.t = "Bool" /\ r.t = "Bool" -> IF l.b = r.b THEN "true" ELSE "false"
      [] l.t = "Char" /\ r.t = "Char" -> IF l.ch = r.ch THEN "true" ELSE "false"
      [] l.t = "String" /\ r.t = "String" -> IF l.s = r.s THEN "true" ELSE "false"
      [] l.t = "Vector" /\ r.t = "Vector" -> IF l.p = r.p THEN "true" ELSE "false"
      [] l.t = "Tuple" /\ r.t = "Tuple" ->
            IF l.p \in held \/ r.p \in held \/ l.p = r.p THEN "lock"
            ELSE tuple_eq_from(h, h[l.p].e, h[r.p].e, 1, held \cup {l.p, r.p})
      [] l.t = "Fn" /\ r.t = "Fn" ->
            IF l.kind = r.kind /\ l.p = r.p THEN "true" ELSE "false"
      [] l.t = "NativeObject" /\ r.t = "NativeObject" ->
            IF l.p = r.p THEN "true" ELSE "false"
      [] OTHER -> "false"

\* bool_from with the Char arm written as `v as u8 != 0`
bool_from_char_nonzero(v) ==
    CASE v.t = "Null" -> FALSE
      [] v.t = "Int" -> v.i = 0
      [] v.t = "Float" -> v.num = 0
      [] v.t = "Bool" -> v.b
      [] v.t = "Char" -> (v.ch % 256) # 0
      [] v.t = "String" -> v.s # ""
      [] OTHER -> TRUE

\* impl From<Value> for bool
bool_from(v) ==
    CASE v.t = "Null" -> FALSE
      [] v.t = "Int" -> v.i = 0
      [] v.t = "Float" -> v.num = 0
      [] v.t = "Bool" -> v.b
      [] v.t = "Char" -> (v.ch % 256) = 0
      [] v.t = "String" -> v.s # ""
      [] OTHER -> TRUE

IsNumber(v) == v.t \in {"Int", "Float"}
halves_of(v) == IF v.t = "Int" THEN 2 * v.i ELSE v.num
\* result of an Int/Float arithmetic operator whose exact value is n halves
arith(l, r, n) == IF l.t = "Int" /\ r.t = "Int" THEN VInt(n \div 2) ELSE VFloat(n)

BinaryOperations ==
    {"Add", "Sub", "Mul", "Div", "Mod", "Pow", "EE", "NE", "LT", "GT", "LE", "GE",
     "And", "Or", "Is", "In", "As"}

abs(n) == IF n < 0 THEN 0 - n ELSE n
\* i64 `/`: the quotient truncated towards zero
int_div(a, b) ==
    IF (a < 0) = (b < 0) THEN abs(a) \div abs(b) ELSE 0 - (abs(a) \div abs(b))
\* i64 `%` and f64 `%`: the remainder takes the sign of the dividend
int_rem(a, b) == a - b * int_div(a, b)
\* f64 `*`, `/` and `%` on halves, where the result is again a number of halves
float_exact(op, a, b) ==
    CASE op = "Mul" -> (a * b) % 2 = 0
      [] op = "Div" -> b # 0 /\ int_rem(2 * a, b) = 0
      [] op = "Mod" -> b # 0
      [] OTHER -> TRUE
fmul(a, b) == CASE float_exact("Mul", a, b) -> (a * b) \div 2
fdiv(a, b) == CASE float_exact("Div", a, b) -> int_div(2 * a, b)
frem(a, b) == CASE float_exact("Mod", a, b) -> int_rem(a, b)
\* str::repeat(right.max(0) as usize)
RECURSIVE repeat(_, _)
repeat(s, n) == IF n <= 0 THEN "" ELSE s \o repeat(s, n - 1)

\* i64::pow(self, exp) by repeated multiplication; the operand bounds keep
\* every product inside i64
RECURSIVE int_pow(_, _)
int_pow(base, exp) == IF exp = 0 THEN 1 ELSE base * int_pow(base, exp - 1)
\* the u32 exponent handed to pow: right.max(0).unsigned_abs().try_into().unwrap_or_default()
\* (an exponent above u32::MAX becomes 0; no integer of the model is that large)
pow_exponent(right) == IF right > 0 THEN right ELSE 0
\* f64::powf on halves, where the result is again a number of halves
powf_exact(b, e) == e = 0 \/ b = 2 \/ e = 2 \/ (b = 0 /\ e > 0)
powf(b, e) ==
    CASE e = 0 -> 2
      [] e # 0 /\ b = 2 -> 2
      [] e # 0 /\ b # 2 /\ e = 2 -> b
      [] e # 0 /\ b # 2 /\ e # 2 /\ b = 0 /\ e > 0 -> 0

Ok(h, v) == [st |-> "ok", h |-> h, val |-> v, err |-> [kind |-> "none"]]
Locked(h) == [st |-> "lock", h |-> h, val |-> VNull, err |-> [kind |-> "none"]]
IllegalBinaryOperation(h, op, l, r) ==
    [st |-> "err", h |-> h, val |-> VNull,
     err |-> [kind |-> "IllegalBinaryOperation", op |-> op,
              left |-> typ(h, l), right |-> typ(h, r)]]
UnknownTypeCast(h, to) ==
    [st |-> "err", h |-> h, val |-> VNull, err |-> [kind |-> "UnknownTypeCast", typ |-> to]]
\* a panic inside the operation ("attempt to divide by zero")
Aborted(h) == [st |-> "panic", h |-> h, val |-> VNull, err |-> [kind |-> "none"]]

\* UTF-8 encoding of the strings used as heads: one entry per byte, with
\* the char the byte belongs to and whether the byte starts that char
ascii(codes) == [k \in DOMAIN codes |-> [ch |-> codes[k], lead |-> TRUE]]
utf8(s) ==
    CASE s = "" -> <<>>
      [] s = "a" -> ascii(<<97>>)
      [] s = "ab" -> ascii(<<97, 98>>)
      [] s = "é" -> <<[ch |-> 233, lead |-> TRUE], [ch |-> 233, lead |-> FALSE]>>
      [] s = "int" -> ascii(<<105, 110, 116>>)
      [] s = "float" -> ascii(<<102, 108, 111, 97, 116>>)
      [] s = "bool" -> ascii(<<98, 111, 111, 108>>)
      [] s = "char" -> ascii(<<99, 104, 97, 114>>)
      [] s = "str" -> ascii(<<115, 116, 114>>)
      [] s = "vec" -> ascii(<<118, 101, 99>>)
      [] s = "tuple" -> ascii(<<116, 117, 112, 108, 101>>)
      [] s = "map" -> ascii(<<109, 97, 112>>)
      [] s = "error" -> ascii(<<101, 114, 114, 111, 114>>)

\* impl Display / Debug for Value, for the values whose text does not depend
\* on an address or on the iteration order of a HashMap.  The result is the
\* text, or Unwritten when formatting locks a tuple whose guard is alive.
Unwritten == [ok |-> FALSE, s |-> ""]
Written(s) == [ok |-> TRUE, s |-> s]
CharTexts == {97, 98, 233}
char_string(code) ==
    CASE code = 97 -> "a"
      [] code = 98 -> "b"
      [] code = 233 -> "é"
float_string(halves, debug) ==
    (IF halves < 0 THEN "-" ELSE "") \o ToString(abs(halves) \div 2)
        \o (IF abs(halves) % 2 = 1 THEN ".5" ELSE IF debug THEN ".0" ELSE "")
RECURSIVE Printable(_, _, _)
Printable(h, v, depth) ==
    CASE v.t \in {"Null", "Int", "Float", "Bool", "String"} -> TRUE
      [] v.t = "Char" -> v.ch \in CharTexts
      [] v.t \in {"Vector", "Tuple"} ->
            depth > 0 /\ \A k \in 1..Len(h[v.p].e) : Printable(h, h[v.p].e[k], depth - 1)
      [] OTHER -> FALSE
RECURSIVE fmt(_, _, _, _)
RECURSIVE fmt_join(_, _, _, _)
fmt_join(h, elems, idx, held) ==
    IF idx > Len(elems) THEN Written("")
    ELSE LET head == fmt(h, elems[idx], TRUE, held)
             rest == fmt_join(h, elems, idx + 1, held)
         IN IF ~head.ok \/ ~rest.ok THEN Unwritten
            ELSE IF idx = Len(elems) THEN head
            ELSE Written(head.s \o ", " \o rest.s)
fmt(h, v, debug, held) ==
    CASE v.t = "Null" -> Written("null")
      [] v.t = "Int" -> Written(ToString(v.i))
      [] v.t = "Float" -> Written(float_string(v.num, debug))
      [] v.t = "Bool" -> Written(IF v.b THEN "true" ELSE "false")
      [] v.t = "Char" ->
            Written(IF debug THEN "'" \o char_string(v.ch) \o "'" ELSE char_string(v.ch))
      [] v.t = "String" -> Written(IF debug THEN "\"" \o v.s \o "\"" ELSE v.s)
      [] v.t = "Vector" ->
            LET inner == fmt_join(h, h[v.p].e, 1, held)
            IN IF inner.ok THEN Written("[" \o inner.s \o "]") ELSE Unwritten
      [] v.t = "Tuple" ->
            IF v.p \in held THEN Unwritten
            ELSE LET inner == fmt_join(h, h[v.p].e, 1, held \cup {v.p})
                 IN IF inner.ok THEN Written("(" \o inner.s \o ")") ELSE Unwritten
\* value.to_string()
to_string(h, v, held) == fmt(h, v, FALSE, held)

\* HashMap::keys() of a map with at most one key, as Value::String
SingleKeyed(entries) == \A a \in DOMAIN entries : \A b \in DOMAIN entries : a = b
keys_of(entries) ==
    CASE DOMAIN entries = {} -> <<>>
      [] DOMAIN entries # {} /\ SingleKeyed(entries) ->
            <<VString(CHOOSE key \in DOMAIN entries : TRUE)>>

\* the `As` arms of Value::binary: i64 / f64 / char / String / Vec / Box<[Value]>
\* ::try_from(left), with unwrap_or_default() turning a failed cast into Null
cast(h, left, to, held) ==
    CASE to = "int" ->
            Ok(h, IF left.t = "Int" THEN left
                  ELSE IF left.t = "Float" THEN VInt(int_div(left.num, 2))
                  ELSE VNull)
      [] to = "float" ->
            Ok(h, IF left.t = "Int" THEN VFloat(2 * left.i)
                  ELSE IF left.t = "Float" THEN left
                  ELSE VNull)
      [] to = "bool" -> Ok(h, VBool(bool_from(left)))
      [] to = "char" -> Ok(h, IF left.t = "Char" THEN left ELSE VNull)
      [] to = "str" ->
            LET text == to_string(h, left, held)
            IN IF text.ok THEN Ok(h, VString(text.s)) ELSE Locked(h)
      [] to = "vec" ->
            IF left.t = "Tuple" /\ left.p \in held THEN Locked(h)
            ELSE IF left.t \in {"Vector", "Tuple"}
            THEN Ok(Append(h, VectorCell(h[left.p].e)), VVector(Len(h) + 1))
            ELSE IF left.t = "Map"
            THEN Ok(Append(h, VectorCell(keys_of(h[left.p].m))), VVector(Len(h) + 1))
            ELSE Ok(h, VNull)
      [] to = "tuple" ->
            IF left.t = "Tuple" /\ left.p \in held THEN Locked(h)
            ELSE IF left.t \in {"Vector", "Tuple"}
            THEN Ok(Append(h, TupleCell(h[left.p].e)), VTuple(Len(h) + 1))
            ELSE Ok(h, VNull)
      [] OTHER -> UnknownTypeCast(h, to)

\* slice.contains(&left): `elem == left` down the slice until one is equal
RECURSIVE contains(_, _, _, _, _)
contains(h, elems, idx, left, held) ==
    IF idx > Len(elems) THEN "false"
    ELSE LET r == eq(h, elems[idx], left, held)
         IN IF r = "false" THEN contains(h, elems, idx + 1, left, held) ELSE r

\* Value::binary below the tuple shortcut: the `Ok(match op { .. })` part
binary_match(h, op, l, r, held) ==
    CASE op = "Add" ->
            IF IsNumber(l) /\ IsNumber(r) THEN Ok(h, arith(l, r, halves_of(l) + halves_of(r)))
            ELSE IF l.t = "String" /\ r.t = "String" THEN Ok(h, VString(l.s \o r.s))
            ELSE IllegalBinaryOperation(h, op, l, r)
      [] op = "Sub" ->
            IF IsNumber(l) /\ IsNumber(r) THEN Ok(h, arith(l, r, halves_of(l) - halves_of(r)))
            ELSE IllegalBinaryOperation(h, op, l, r)
      [] op = "Mul" ->
            IF l.t = "Int" /\ r.t = "Int" THEN Ok(h, VInt(l.i * r.i))
            ELSE IF IsNumber(l) /\ IsNumber(r)
            THEN Ok(h, VFloat(fmul(halves_of(l), halves_of(r))))
            ELSE IF l.t = "String" /\ r.t = "Int" THEN Ok(h, VString(repeat(l.s, r.i)))
            ELSE IllegalBinaryOperation(h, op, l, r)
      [] op = "Div" ->
            IF l.t = "Int" /\ r.t = "Int"
            THEN IF r.i = 0 THEN Aborted(h) ELSE Ok(h, VInt(int_div(l.i, r.i)))
            ELSE IF IsNumber(l) /\ IsNumber(r)
            THEN Ok(h, VFloat(fdiv(halves_of(l), halves_of(r))))
            ELSE IllegalBinaryOperation(h, op, l, r)
      [] op = "Mod" ->
            IF l.t = "Int" /\ r.t = "Int"
            THEN IF r.i = 0 THEN Aborted(h) ELSE Ok(h, VInt(int_rem(l.i, r.i)))
            ELSE IF IsNumber(l) /\ IsNumber(r)
            THEN Ok(h, VFloat(frem(halves_of(l), halves_of(r))))
            ELSE IllegalBinaryOperation(h, op, l, r)
      [] op = "Pow" ->
            IF l.t = "Int" /\ r.t = "Int"
            THEN Ok(h, VInt(int_pow(l.i, pow_exponent(r.i))))
            ELSE IF IsNumber(l) /\ IsNumber(r)
            THEN Ok(h, VFloat(powf(halves_of(l), halves_of(r))))
            ELSE IllegalBinaryOperation(h, op, l, r)
      [] op = "EE" -> Ok(h, VBool(eq(h, l, r, {}) = "true"))
      [] op = "NE" -> Ok(h, VBool(eq(h, l, r, {}) # "true"))
      [] op \in {"LT", "GT", "LE", "GE"} ->
            IF (IsNumber(l) /\ IsNumber(r)) \/ (l.t = "Char" /\ r.t = "Char")
            THEN LET a == IF l.t = "Char" THEN l.ch ELSE halves_of(l)
                     b == IF r.t = "Char" THEN r.ch ELSE halves_of(r)
                 IN Ok(h, VBool(CASE op = "LT" -> a < b
                                  [] op = "GT" -> a > b
                                  [] op = "LE" -> a <= b
                                  [] op = "GE" -> a >= b))
            ELSE IllegalBinaryOperation(h, op, l, r)
      [] op = "And" -> Ok(h, VBool(bool_from(l) /\ bool_from(r)))
      [] op = "Or" -> Ok(h, VBool(bool_from(l) /\ bool_from(r)))
      [] op = "Is" ->
            IF r.t = "String" THEN Ok(h, VBool(typ(h, l) = r.s))
            ELSE IllegalBinaryOperation(h, op, l, r)
      [] op = "As" ->
            IF r.t = "String" THEN cast(h, l, r.s, held)
            ELSE IllegalBinaryOperation(h, op, l, r)
      [] op = "In" ->
            IF l.t = "Char" /\ r.t = "String"
            THEN Ok(h, VBool(\E k \in 1..Len(utf8(r.s)) : utf8(r.s)[k].ch = l.ch))
            ELSE IF l.t = "String" /\ r.t = "Map"
            THEN Ok(h, VBool(l.s \in DOMAIN h[r.p].m))
            ELSE IF r.t = "Tuple" /\ r.p \in held THEN Locked(h)
            ELSE IF r.t \in {"Vector", "Tuple"}
            THEN LET found == contains(h, h[r.p].e, 1, l,
                                       IF r.t = "Tuple" THEN held \cup {r.p} ELSE held)
                 IN IF found = "lock" THEN Locked(h) ELSE Ok(h, VBool(found = "true"))
            ELSE IllegalBinaryOperation(h, op, l, r)

\* Value::binary.  Two tuples are zipped element-wise under both guards and
\* the results go into a freshly allocated tuple; `?` stops at the first
\* failing element.
RECURSIVE binary(_, _, _, _, _)
RECURSIVE binary_zip(_, _, _, _, _, _, _)
binary_zip(h, op, le, re, idx, held, new) ==
    IF idx > Len(le) \/ idx > Len(re)
    THEN Ok(Append(h, TupleCell(new)), VTuple(Len(h) + 1))
    ELSE LET r == binary(h, op, le[idx], re[idx], held)
         IN IF r.st = "ok"
            THEN binary_zip(r.h, op, le, re, idx + 1, held, Append(new, r.val))
            ELSE r

binary(h, op, l, r, held) ==
    IF l.t = "Tuple" /\ r.t = "Tuple"
    THEN IF l.p \in held \/ r.p \in held \/ l.p = r.p THEN Locked(h)
         ELSE binary_zip(h, op, h[l.p].e, h[r.p].e, 1, held \cup {l.p, r.p}, <<>>)
    ELSE binary_match(h, op, l, r, held)

\* ---------------------------------------------------------------- bytecode
\* Option<T>: None, or the T itself
NoneOpt == [opt |-> "None"]
IsSome(x) == x # NoneOpt

\* Source operands
SrcNull == [s |-> "Null"]
SrcBool(b) == [s |-> "Bool", b |-> b]
SrcChar(code) == [s |-> "Char", ch |-> code]
SrcInt(n) == [s |-> "Int", i |-> n]
SrcFloat(halves) == [s |-> "Float", num |-> halves]
SrcRegister(reg) == [s |-> "Register", reg |-> reg]
SrcGlobal(addr) == [s |-> "Global", k |-> addr]
SrcConstant(addr) == [s |-> "Constant", k |-> addr]
\* Location operands
LocRegister(reg) == [loc |-> "Register", reg |-> reg]
LocGlobal(addr) == [loc |-> "Global", k |-> addr]

\* Location::eq_source
eq_source(dst, src) ==
    \/ dst.loc = "Register" /\ src.s = "Register" /\ dst.reg = src.reg
    \/ dst.loc = "Global" /\ src.s = "Global" /\ dst.k = src.k
\* impl From<Location> for Source
source_from(dst) == IF dst.loc = "Register" THEN SrcRegister(dst.reg) ELSE SrcGlobal(dst.k)

BcNone == [op |-> "None"]
BcJump(addr) == [op |-> "Jump", addr |-> addr]
BcJumpIf(negative, cond, addr) ==
    [op |-> "JumpIf", negative |-> negative, cond |-> cond, addr |-> addr]
BcJumpIfSome(negative, src, addr) ==
    [op |-> "JumpIfSome", negative |-> negative, src |-> src, addr |-> addr]
BcCall(dst, func, start, amount) ==
    [op |-> "Call", dst |-> dst, func |-> func, start |-> start, amount |-> amount]
BcReturn(src) == [op |-> "Return", src |-> src]
BcMove(dst, src) == [op |-> "Move", dst |-> dst, src |-> src]
BcField(dst, head, field) == [op |-> "Field", dst |-> dst, head |-> head, field |-> field]
BcSetField(head, field, src) == [op |-> "SetField", head |-> head, field |-> field, src |-> src]
BcVector(dst, start, amount) == [op |-> "Vector", dst |-> dst, start |-> start, amount |-> amount]
BcTuple(dst, start, amount) == [op |-> "Tuple", dst |-> dst, start |-> start, amount |-> amount]
BcMap(dst) == [op |-> "Map", dst |-> dst]
BcFn(dst, addr) == [op |-> "Fn", dst |-> dst, addr |-> addr]
BcBinary(bop, dst, left, right) ==
    [op |-> "Binary", bop |-> bop, dst |-> dst, left |-> left, right |-> right]
BcUnary(uop, dst, right) == [op |-> "Unary", uop |-> uop, dst |-> dst, right |-> right]

\* Closure::default() (path and name carry no behaviour and are left out)
DefaultClosure ==
    [code |-> <<>>, lines |-> <<>>, parameters |-> 0, registers |-> 0,
     varargs |-> FALSE, closures |-> <<>>, constants |-> <<>>]

\* --------------------------------------------------------------- fields
MapCell(entries) == [cell |-> "Map", m |-> entries]
NoEntries == [key \in {} |-> VNull]

NoErr == [kind |-> "none"]
InvalidField(h, head_typ, fld) ==
    [kind |-> "InvalidField", head |-> head_typ, field |-> typ(h, fld)]
InvalidFieldHead(h, head) == [kind |-> "InvalidFieldHead", head |-> typ(h, head)]
IndexOutOfRange(index, len) == [kind |-> "IndexOutOfRange", index |-> index, len |-> len]

\* string.get(index..=index).and_then(|s| s.chars().next()).map(Value::Char):
\* Some only when byte index and byte index + 1 are char boundaries
str_get(s, index) ==
    LET bytes == utf8(s)
    IN IF /\ index < Len(bytes)
          /\ bytes[index + 1].lead
          /\ (index + 1 = Len(bytes) \/ bytes[index + 2].lead)
       THEN VChar(bytes[index + 1].ch)
       ELSE NoneOpt

\* slice.get(index).cloned()
slice_get(values, index) == IF index < Len(values) THEN values[index + 1] ELSE NoneOpt

\* The index computed for Int field `value` on a container of length len:
\*   if value <= -1 { if (|value| - 1) > len { None } else { len - |value| } }
\*   else { |value| }
\* "Underflow" is the usize subtraction len - |value| with |value| = len + 1.
index_of(value, len) ==
    IF value <= -1
    THEN IF (-value) - 1 > len THEN [ix |-> "None"]
         ELSE IF len - (-value) < 0 THEN [ix |-> "Underflow"]
         ELSE [ix |-> "At", at |-> len - (-value)]
    ELSE [ix |-> "At", at |-> value]

FieldOk(v) == [st |-> "ok", val |-> v, err |-> NoErr]
FieldErr(e) == [st |-> "err", val |-> VNull, err |-> e]
FieldPanic == [st |-> "panic", val |-> VNull, err |-> NoErr]
OrDefault(opt) == IF opt = NoneOpt THEN VNull ELSE opt

\* An Int read at the computed index.  A build with overflow checks panics
\* on the underflow; a build without them wraps the index around to a value
\* no container reaches, and the read finds nothing.
read_at(ix, getter(_)) ==
    CASE ix.ix = "None" -> {FieldOk(VNull)}
      [] ix.ix = "Underflow" -> {FieldPanic, FieldOk(VNull)}
      [] ix.ix = "At" -> {FieldOk(OrDefault(getter(ix.at)))}

\* Value::field(self, field, ln): the set of outcomes over the builds
value_field(h, head, fld) ==
    CASE head.t = "String" ->
            IF fld.t = "Int"
            THEN read_at(index_of(fld.i, Len(utf8(head.s))), LAMBDA at : str_get(head.s, at))
            ELSE {FieldErr(InvalidField(h, "vec", fld))}
      [] head.t = "Vector" ->
            IF fld.t = "Int"
            THEN read_at(index_of(fld.i, Len(h[head.p].e)), LAMBDA at : slice_get(h[head.p].e, at))
            ELSE {FieldErr(InvalidField(h, "vec", fld))}
      [] head.t = "Tuple" ->
            IF fld.t = "Int"
            THEN read_at(index_of(fld.i, Len(h[head.p].e)), LAMBDA at : slice_get(h[head.p].e, at))
            ELSE {FieldErr(InvalidField(h, "tuple", fld))}
      [] head.t = "Map" ->
            IF fld.t = "String"
            THEN {FieldOk(IF fld.s \in DOMAIN h[head.p].m THEN h[head.p].m[fld.s] ELSE VNull)}
            ELSE {FieldErr(InvalidField(h, "map", fld))}
      [] head.t = "NativeObject" ->
            IF fld.t = "String"
            THEN {FieldOk(IF fld.s \in DOMAIN h[head.p].fields
                          THEN h[head.p].fields[fld.s] ELSE VNull)}
            ELSE {FieldErr(InvalidField(h, "map", fld))}
      [] OTHER -> {FieldErr(InvalidFieldHead(h, head))}

SetOk(h) == [st |-> "ok", h |-> h, err |-> NoErr]
SetErr(h, e) == [st |-> "err", h |-> h, err |-> e]
SetPanic(h) == [st |-> "panic", h |-> h, err |-> NoErr]

\* get_mut at the computed index, .ok_or(IndexOutOfRange { index, len })?,
\* then *dst = src
write_at(h, p, value, src) ==
    LET len == Len(h[p].e)
        ix == index_of(value, len)
        out_of_range == SetErr(h, IndexOutOfRange(value, len))
    IN CASE ix.ix = "None" -> {out_of_range}
         [] ix.ix = "Underflow" -> {SetPanic(h), out_of_range}
         [] ix.ix = "At" ->
               IF ix.at < len
               THEN {SetOk([h EXCEPT ![p].e[ix.at + 1] = src])}
               ELSE {out_of_range}

\* Value::set_field(self, field, src, ln): the set of outcomes over the builds
set_field(h, head, fld, src) ==
    CASE head.t = "Vector" ->
            IF fld.t = "Int" THEN write_at(h, head.p, fld.i, src)
            ELSE {SetErr(h, InvalidField(h, "vec", fld))}
      [] head.t = "Tuple" ->
            IF fld.t = "Int" THEN write_at(h, head.p, fld.i, src)
            ELSE {SetErr(h, InvalidField(h, "vec", fld))}
      [] head.t = "Map" ->
            IF fld.t = "String"
            THEN {SetOk([h EXCEPT ![head.p].m =
                            [key \in DOMAIN @ \cup {fld.s} |-> IF key = fld.s THEN src ELSE @[key]]])}
            ELSE {SetErr(h, InvalidField(h, "map", fld))}
      [] OTHER -> {SetErr(h, InvalidFieldHead(h, head))}

\* ---------------------------------------------------------------- compiler
NoLocals == [n \in {} |-> 0]
DefaultScope == [locals |-> NoLocals, offset |-> 0, breaks |-> {}, continues |-> {}]
DefaultFrame == [closure |-> DefaultClosure, registers |-> 0, scopes |-> <<>>, max_registers |-> 0]

\* `n as u8` and `n as u16` of a usize: the low bits, in every build
as_u8(n) == n % 256
as_u16(n) == n % 65536

\* Sequencing: Bind(v, LAMBDA x : e) is e with x standing for the value of
\* v, which is computed once, as `let x = v;` computes it in the source.
The(S) == CHOOSE x \in S : TRUE
Bind(v, F(_)) == CHOOSE y \in {F(x) : x \in {v}} : TRUE

Last(q) == q[Len(q)]
Front(q) == SubSeq(q, 1, Len(q) - 1)
SetLast(q, x) == [q EXCEPT ![Len(q)] = x]

\* Compiler::frame / frame_mut
frame(c) == Last(c.frame_stack)
with_frame(c, f) == [c EXCEPT !.frame_stack = SetLast(c.frame_stack, f)]

\* What a compiler call that panics leaves behind is kept in three flags:
\* underflow records that a `code.len() - 1` was evaluated on empty code and
\* overflow that a register or parameter count passed 255 (both panic under
\* overflow checks and wrap without them); panicked records an
\* Option::unwrap() on None, which panics in every build.  A fourth flag,
\* narrowed, records that an `as u8` dropped high bits, which no build
\* reports.
Compiler(frame_stack) ==
    [frame_stack |-> frame_stack, underflow |-> FALSE, overflow |-> FALSE, panicked |-> FALSE,
     narrowed |-> FALSE]
\* lib.rs compile: Compiler { path, frame_stack: vec![Frame { scopes: vec![Scope::default()], .. }] }
NewCompiler == Compiler(<<[DefaultFrame EXCEPT !.scopes = <<DefaultScope>>]>>)
\* scope_mut().unwrap() on a frame without a scope
UnwrapNone == [panic |-> "called Option::unwrap() on a None value"]
Unwound(f) == "panic" \in DOMAIN f
\* compiler.frame_mut().unwrap().<call>() for a call that returns the frame
\* or panics
landed(c, f) ==
    Bind(f, LAMBDA g : IF Unwound(g) THEN [c EXCEPT !.panicked = TRUE] ELSE with_frame(c, g))
overflowed(c, wrapped) == [c EXCEPT !.overflow = @ \/ wrapped]
\* the compiler after `n as u8`
narrowed(c, n) == [c EXCEPT !.narrowed = @ \/ n > 255]

\* Compiler::push_frame
push_frame(c) ==
    [c EXCEPT !.frame_stack = Append(@, [DefaultFrame EXCEPT !.scopes = <<DefaultScope>>])]
\* Compiler::pop_frame
pop_frame(c) == [c EXCEPT !.frame_stack = Front(@)]

\* index (0-based) of the first pool entry equal to value, or -1
RECURSIVE position(_, _, _)
position(constants, value, k) ==
    IF k > Len(constants) THEN -1
    ELSE IF eq(<<>>, constants[k], value, {}) = "true" THEN k - 1
    ELSE position(constants, value, k + 1)

\* new_constant without the lookup: every call appends
new_constant_always_push(c, value) ==
    LET f == frame(c)
    IN [c |-> with_frame(c, [f EXCEPT !.closure.constants = Append(@, value)]),
        addr |-> as_u16(Len(f.closure.constants))]

\* Compiler::new_constant
new_constant(c, value) ==
    LET f == frame(c)
        found == position(f.closure.constants, value, 1)
    IN IF found >= 0 THEN [c |-> c, addr |-> as_u16(found)]
       ELSE [c |-> with_frame(c, [f EXCEPT !.closure.constants = Append(@, value)]),
             addr |-> as_u16(Len(f.closure.constants))]

\* Compiler::new_closure
new_closure(c, closure) ==
    LET f == frame(c)
    IN [c |-> with_frame(c, [f EXCEPT !.closure.closures = Append(@, closure)]),
        addr |-> as_u16(Len(f.closure.closures))]

\* Compiler::addr
addr_of(c) == Len(frame(c).closure.code)

\* Compiler::write
write(c, bytecode, ln) ==
    LET f == frame(c)
    IN [c |-> with_frame(c, [f EXCEPT !.closure.code = Append(@, bytecode),
                                      !.closure.lines = Append(@, ln)]),
        addr |-> Len(f.closure.code)]

\* Compiler::overwrite (addr is 0-based and must be in range: Vec indexing)
overwrite(c, addr, bytecode, ln) ==
    LET f == frame(c)
    IN with_frame(c, [f EXCEPT !.closure.code[addr + 1] = bytecode,
                               !.closure.lines[addr + 1] = ln])

\* Compiler::overwrite_no_ln
overwrite_no_ln(c, addr, bytecode) ==
    LET f == frame(c)
    IN with_frame(c, [f EXCEPT !.closure.code[addr + 1] = bytecode])

\* Compiler::overwrite_jump_if
overwrite_jump_if(c, addr, negative, cond, to, ln) ==
    IF to # addr + 1 THEN overwrite(c, addr, BcJumpIf(negative, cond, to), ln) ELSE c

\* Compiler::overwrite_jump_if_some
overwrite_jump_if_some(c, addr, negative, src, to, ln) ==
    IF to # addr + 1 THEN overwrite(c, addr, BcJumpIfSome(negative, src, to), ln) ELSE c

\* Compiler::overwrite_jump
overwrite_jump(c, addr, to, ln) ==
    IF to # addr + 1 THEN overwrite(c, addr, BcJump(to), ln) ELSE c

\* Compiler::none
none(c) == write(c, BcNone, 0)

\* Frame::alloc_break / Frame::alloc_continue: scope_mut().unwrap()
frame_alloc_break(f, addr) ==
    IF f.scopes = <<>> THEN UnwrapNone
    ELSE [f EXCEPT !.scopes[Len(f.scopes)].breaks = @ \cup {addr}]
frame_alloc_continue(f, addr) ==
    IF f.scopes = <<>> THEN UnwrapNone
    ELSE [f EXCEPT !.scopes[Len(f.scopes)].continues = @ \cup {addr}]

\* Compiler::alloc_break: the placeholder is written before the frame is asked
alloc_break(c, ln) ==
    Bind(write(c, BcNone, ln), LAMBDA w :
        landed(w.c, frame_alloc_break(frame(w.c), w.addr)))

\* Compiler::alloc_continue
alloc_continue(c, ln) ==
    Bind(write(c, BcNone, ln), LAMBDA w :
        landed(w.c, frame_alloc_continue(frame(w.c), w.addr)))

\* return_safe that forgets the line of the Return it appends
return_safe_no_line(c, ln) ==
    LET f == frame(c)
        code == f.closure.code
    IN IF Len(code) > 0 /\ Last(code).op = "Return"
       THEN [c |-> c, addr |-> Len(code) - 1]
       ELSE [c |-> with_frame(c, [f EXCEPT !.closure.code = Append(@, BcReturn(NoneOpt))]),
             addr |-> Len(code)]

\* Compiler::return_safe
return_safe(c, ln) ==
    LET f == frame(c)
        code == f.closure.code
    IN IF Len(code) > 0 /\ Last(code).op = "Return"
       THEN [c |-> c, addr |-> Len(code) - 1]
       ELSE [c |-> with_frame(c, [f EXCEPT !.closure.code = Append(@, BcReturn(NoneOpt)),
                                           !.closure.lines = Append(@, ln)]),
             addr |-> Len(code)]

\* Compiler::move_checked.  When dst and src are the same place nothing is
\* emitted; the returned address is code.len() - 1.
move_checked(c, dst, src, ln) ==
    IF eq_source(dst, src)
    THEN [c |-> [c EXCEPT !.underflow = @ \/ Len(frame(c).closure.code) = 0],
          addr |-> Len(frame(c).closure.code) - 1]
    ELSE write(c, BcMove(dst, src), ln)

\* Frame::push_scope
push_scope(f) == [f EXCEPT !.scopes = Append(@, [DefaultScope EXCEPT !.offset = f.registers])]

\* pop_scope that drops the breaks and continues of the popped scope
pop_scope_unmerged(f) ==
    IF Len(f.scopes) = 0 THEN f
    ELSE [f EXCEPT !.registers = Last(f.scopes).offset, !.scopes = Front(@)]

\* Frame::pop_scope
pop_scope(f) ==
    IF Len(f.scopes) = 0 THEN f
    ELSE LET scope == Last(f.scopes)
             rest == Front(f.scopes)
         IN [f EXCEPT !.registers = scope.offset,
                      !.scopes = IF Len(rest) = 0 THEN rest
                                 ELSE SetLast(rest,
                                        [Last(rest) EXCEPT !.breaks = @ \cup scope.breaks,
                                                           !.continues = @ \cup scope.continues])]

\* Frame::pop_scope_loop: the frame afterwards and the popped scope
pop_scope_loop(f) ==
    IF Len(f.scopes) = 0 THEN [f |-> f, scope |-> NoneOpt]
    ELSE [f |-> [f EXCEPT !.registers = Last(f.scopes).offset, !.scopes = Front(@)],
          scope |-> Last(f.scopes)]

\* bump_max that leaves the high-water mark alone
bump_max_skipped(f) == f

\* the high-water mark update shared by new_register and alloc_registers
bump_max(f) ==
    IF f.max_registers < f.registers
    THEN [f EXCEPT !.max_registers = f.registers, !.closure.registers = f.registers]
    ELSE f

\* Frame::new_register: the frame and the register as a build without
\* overflow checks leaves them, and whether the u8 addition passed 255 (a
\* panic in a build with overflow checks)
new_register(f) ==
    [f |-> bump_max([f EXCEPT !.registers = (@ + 1) % 256]), reg |-> f.registers,
     overflow |-> f.registers + 1 > 255]

\* Frame::alloc_registers, in the same way
alloc_registers(f, amount) ==
    [f |-> bump_max([f EXCEPT !.registers = (@ + amount) % 256]),
     regs |-> [k \in 1..amount |-> (f.registers + (k - 1)) % 256],
     overflow |-> f.registers + amount > 255]

\* Frame::get_local: innermost scope first; -1 for None
RECURSIVE get_local_from(_, _, _)
get_local_from(scopes, name, k) ==
    IF k = 0 THEN -1
    ELSE IF name \in DOMAIN scopes[k].locals THEN scopes[k].locals[name]
    ELSE get_local_from(scopes, name, k - 1)
\* a lookup that sees the innermost scope only
get_local_innermost(f, name) ==
    IF f.scopes # <<>> /\ name \in DOMAIN Last(f.scopes).locals
    THEN Last(f.scopes).locals[name] ELSE -1
get_local(f, name) == get_local_from(f.scopes, name, Len(f.scopes))

\* Frame::set_local: scope_mut().unwrap()
set_local(f, name, register) ==
    IF f.scopes = <<>> THEN UnwrapNone
    ELSE [f EXCEPT !.scopes[Len(f.scopes)].locals =
            [n \in (DOMAIN @) \cup {name} |-> IF n = name THEN register ELSE @[n]]]

\* Frame::new_local
new_local(f, name) ==
    IF get_local(f, name) >= 0 THEN [f |-> f, reg |-> get_local(f, name), overflow |-> FALSE]
    ELSE Bind(new_register(f), LAMBDA r :
            [f |-> set_local(r.f, name, r.reg), reg |-> r.reg, overflow |-> r.overflow])

\* --------------------------------------------------------------------- AST
\* Statements, expressions, atoms, paths and parameter patterns of
\* scan/ast.rs as the compiler matches on them.  `ln` is pos.ln.start of
\* the Located<..> around a statement, an expression, a path below the head
\* of another path, a field of a self call, a key of a map literal, and a
\* pattern; the positions the compiler never reads are left out.
PIdent(name) == [pk |-> "Ident", name |-> name]
PTuple(names) == [pk |-> "Tuple", names |-> names]
PVector(names) == [pk |-> "Vector", names |-> names]
PMap(names) == [pk |-> "Map", names |-> names]

\* Path; the head of a Field or Index path is a Located<Path>
PathIdent(name) == [pa |-> "Ident", name |-> name]
PathField(head, field) == [pa |-> "Field", head |-> head, field |-> field]
PathIndex(head, index) == [pa |-> "Index", head |-> head, index |-> index]
LocatedPath(ln, path) == [ln |-> ln, path |-> path]
\* Located<String>: the field of a self call, the key of a map literal
LocatedName(ln, name) == [ln |-> ln, name |-> name]

AtomPath(path) == [ak |-> "Path", path |-> path]
AtomNull == [ak |-> "Null"]
AtomInt(n) == [ak |-> "Int", i |-> n]
AtomFloat(halves) == [ak |-> "Float", num |-> halves]
AtomBool(b) == [ak |-> "Bool", b |-> b]
AtomChar(code) == [ak |-> "Char", ch |-> code]
AtomString(s) == [ak |-> "String", s |-> s]
AtomTuple(exprs) == [ak |-> "Tuple", exprs |-> exprs]
AtomVector(exprs) == [ak |-> "Vector", exprs |-> exprs]
AtomMap(pairs) == [ak |-> "Map", pairs |-> pairs]
AtomExpression(expr) == [ak |-> "Expression", expr |-> expr]

\* Located<Expression>
EAtom(ln, atom) == [ek |-> "Atom", ln |-> ln, atom |-> atom]
ECall(ln, head, args) == [ek |-> "Call", ln |-> ln, head |-> head, args |-> args]
ESelfCall(ln, head, field, args) ==
    [ek |-> "SelfCall", ln |-> ln, head |-> head, field |-> field, args |-> args]
EField(ln, head, field) == [ek |-> "Field", ln |-> ln, head |-> head, field |-> field]
EIndex(ln, head, index) == [ek |-> "Index", ln |-> ln, head |-> head, index |-> index]
EBinary(ln, operator, left, right) ==
    [ek |-> "Binary", ln |-> ln, operator |-> operator, left |-> left, right |-> right]
EUnary(ln, operator, right) == [ek |-> "Unary", ln |-> ln, operator |-> operator, right |-> right]

SLet(ln, param, expr) == [st |-> "LetBinding", ln |-> ln, param |-> param, expr |-> expr]
SAssign(ln, aop, path, expr) == [st |-> "Assign", ln |-> ln, aop |-> aop, path |-> path, expr |-> expr]
SFn(ln, name, params, varargs, body) ==
    [st |-> "Fn", ln |-> ln, name |-> name, params |-> params, varargs |-> varargs, body |-> body]
SCall(ln, head, args) == [st |-> "Call", ln |-> ln, head |-> head, args |-> args]
SSelfCall(ln, head, field, args) ==
    [st |-> "SelfCall", ln |-> ln, head |-> head, field |-> field, args |-> args]
SReturn(ln, expr) == [st |-> "Return", ln |-> ln, expr |-> expr]
SIf(ln, cond, case, else_case) ==
    [st |-> "If", ln |-> ln, cond |-> cond, case |-> case, else_case |-> else_case]
SIfLet(ln, param, expr, case, else_case) ==
    [st |-> "IfLet", ln |-> ln, param |-> param, expr |-> expr, case |-> case, else_case |-> else_case]
SWhile(ln, cond, body) == [st |-> "While", ln |-> ln, cond |-> cond, body |-> body]
SWhileLet(ln, param, expr, body) ==
    [st |-> "WhileLet", ln |-> ln, param |-> param, expr |-> expr, body |-> body]
SFor(ln, param, iter, body) == [st |-> "For", ln |-> ln, param |-> param, iter |-> iter, body |-> body]
SContinue(ln) == [st |-> "Continue", ln |-> ln]
SBreak(ln) == [st |-> "Break", ln |-> ln]
\* Located<Parameter>: a parameter of a function, the pattern of if let /
\* while let / for
LocatedParam(ln, param) == [ln |-> ln, param |-> param]
\* Option<Located<Block>> and Option<Located<String>>
SomeBlock(stats) == [block |-> stats]
SomeName(name) == [name |-> name]

\* impl From<BinaryOperator> for BinaryOperation
binary_operation_from(operator) ==
    CASE operator = "Plus" -> "Add"
      [] operator = "Minus" -> "Sub"
      [] operator = "Star" -> "Mul"
      [] operator = "Slash" -> "Div"
      [] operator = "Percent" -> "Mod"
      [] operator = "Exponent" -> "Pow"
      [] operator = "EqualEqual" -> "EE"
      [] operator = "ExclamationEqual" -> "NE"
      [] operator = "Less" -> "LT"
      [] operator = "Greater" -> "GT"
      [] operator = "LessEqual" -> "LE"
      [] operator = "GreaterEqual" -> "GE"
      [] operator = "And" -> "And"
      [] operator = "Or" -> "Or"
      [] operator = "Is" -> "Is"
      [] operator = "In" -> "In"
      [] operator = "As" -> "As"
\* impl From<UnaryOperator> for UnaryOperation
unary_operation_from(operator) == IF operator = "Minus" THEN "Neg" ELSE "Not"

\* ------------------------------------------------------ expression lowering

\* compiler.frame_mut().unwrap().<call>()
cf_push_scope(c) == with_frame(c, push_scope(frame(c)))
cf_pop_scope(c) == with_frame(c, pop_scope(frame(c)))
cf_new_register(c) ==
    Bind(new_register(frame(c)), LAMBDA r :
        [c |-> overflowed(with_frame(c, r.f), r.overflow), reg |-> r.reg])
cf_new_local(c, name) ==
    Bind(new_local(frame(c), name), LAMBDA r :
        [c |-> overflowed(landed(c, r.f), r.overflow), reg |-> r.reg])
cf_alloc_registers(c, amount) ==
    Bind(alloc_registers(frame(c), amount), LAMBDA r :
        [c |-> overflowed(with_frame(c, r.f), r.overflow), regs |-> r.regs])
cf_set_local(c, name, register) == landed(c, set_local(frame(c), name, register))
cf_set_registers(c, registers) == with_frame(c, [frame(c) EXCEPT !.registers = registers])

RECURSIVE compile_expression(_, _)
RECURSIVE compile_atom(_, _, _)
RECURSIVE compile_path(_, _, _)
RECURSIVE compile_args(_, _, _, _, _)
RECURSIVE compile_elems(_, _, _, _)
RECURSIVE compile_pairs(_, _, _, _)

\* Iterator::zip stops with the shorter side
zip_len(xs, ys) == IF Len(xs) < Len(ys) THEN Len(xs) ELSE Len(ys)

\* for (arg, reg) in args.into_iter().zip(registers): compile, move_checked
\* on the line of the argument.  The pairs lo..hi of the zip, in order: the
\* first half, then the second half on the compiler the first half left.
compile_args(c, args, regs, lo, hi) ==
    IF lo > hi THEN c
    ELSE IF lo = hi
         THEN Bind(compile_expression(c, args[lo]), LAMBDA a :
              Bind(move_checked(a.c, LocRegister(regs[lo]), a.src, args[lo].ln), LAMBDA m :
              m.c))
         ELSE Bind(compile_args(c, args, regs, lo, (lo + hi) \div 2), LAMBDA h :
              compile_args(h, args, regs, (lo + hi) \div 2 + 1, hi))

\* the element loop of Atom::Tuple / Atom::Vector: move_checked on the line
\* of the element.  The elements lo..hi, in order: the first half, then the
\* second half on the compiler the first half left.
compile_elems(c, exprs, lo, hi) ==
    IF lo > hi THEN c
    ELSE IF lo = hi
         THEN Bind(cf_new_register(c), LAMBDA d :
              Bind(compile_expression(d.c, exprs[lo]), LAMBDA e :
              Bind(move_checked(e.c, LocRegister(d.reg), e.src, exprs[lo].ln), LAMBDA m :
              m.c)))
         ELSE Bind(compile_elems(c, exprs, lo, (lo + hi) \div 2), LAMBDA h :
              compile_elems(h, exprs, (lo + hi) \div 2 + 1, hi))

\* the pair loop of Atom::Map: SetField on the line of the key
compile_pairs(c, pairs, k, dst) ==
    IF k > Len(pairs) THEN c
    ELSE Bind(compile_expression(c, pairs[k].expr), LAMBDA e :
         Bind(new_constant(e.c, VString(pairs[k].key.name)), LAMBDA f :
         Bind(write(f.c, BcSetField(SrcRegister(dst), SrcConstant(f.addr), e.src),
                    pairs[k].key.ln), LAMBDA w :
         compile_pairs(w.c, pairs, k + 1, dst))))

\* the Field write shared by the Field and Index arms: a new register takes
\* head[field]
field_into_register(c, head, field, ln) ==
    Bind(cf_new_register(c), LAMBDA d :
    Bind(write(d.c, BcField(LocRegister(d.reg), head, field), ln), LAMBDA w :
    [c |-> w.c, reg |-> d.reg]))

\* impl Compilable for Located<Path>, with ln = pos.ln.start
compile_path(c, path, ln) ==
    CASE path.pa = "Ident" ->
            IF get_local(frame(c), path.name) >= 0
            THEN [c |-> c, loc |-> LocRegister(get_local(frame(c), path.name))]
            ELSE Bind(new_constant(c, VString(path.name)), LAMBDA k :
                 [c |-> k.c, loc |-> LocGlobal(k.addr)])
      [] path.pa = "Field" ->
            Bind(compile_path(c, path.head.path, path.head.ln), LAMBDA h :
            Bind(new_constant(h.c, VString(path.field)), LAMBDA f :
            Bind(field_into_register(f.c, source_from(h.loc), SrcConstant(f.addr), ln), LAMBDA w :
            [c |-> w.c, loc |-> LocRegister(w.reg)])))
      [] path.pa = "Index" ->
            Bind(compile_path(c, path.head.path, path.head.ln), LAMBDA h :
            Bind(compile_expression(h.c, path.index), LAMBDA i :
            Bind(field_into_register(i.c, source_from(h.loc), i.src, ln), LAMBDA w :
            [c |-> w.c, loc |-> LocRegister(w.reg)])))

\* impl Compilable for Located<Atom>, with ln = pos.ln.start
compile_atom(c, atom, ln) ==
    CASE atom.ak = "Path" ->
            Bind(compile_path(c, atom.path, ln), LAMBDA r :
            [c |-> r.c, src |-> source_from(r.loc)])
      [] atom.ak = "Null" -> [c |-> c, src |-> SrcNull]
      [] atom.ak = "Int" -> [c |-> c, src |-> SrcInt(atom.i)]
      [] atom.ak = "Float" -> [c |-> c, src |-> SrcFloat(atom.num)]
      [] atom.ak = "Bool" -> [c |-> c, src |-> SrcBool(atom.b)]
      [] atom.ak = "Char" -> [c |-> c, src |-> SrcChar(atom.ch)]
      [] atom.ak = "String" ->
            Bind(new_constant(c, VString(atom.s)), LAMBDA k :
            [c |-> k.c, src |-> SrcConstant(k.addr)])
      [] atom.ak \in {"Tuple", "Vector"} ->
            Bind(cf_new_register(narrowed(c, Len(atom.exprs))), LAMBDA d :
            Bind(frame(d.c).registers, LAMBDA registers :
            Bind(compile_elems(d.c, atom.exprs, 1, Len(atom.exprs)), LAMBDA e :
            Bind(write(e, IF atom.ak = "Tuple"
                          THEN BcTuple(LocRegister(d.reg), registers, as_u8(Len(atom.exprs)))
                          ELSE BcVector(LocRegister(d.reg), registers, as_u8(Len(atom.exprs))),
                       ln),
                 LAMBDA w :
            [c |-> cf_set_registers(w.c, registers), src |-> SrcRegister(d.reg)]))))
      [] atom.ak = "Map" ->
            Bind(cf_new_register(c), LAMBDA d :
            Bind(write(d.c, BcMap(LocRegister(d.reg)), ln), LAMBDA w :
            Bind(compile_pairs(w.c, atom.pairs, 1, d.reg), LAMBDA e :
            [c |-> cf_set_registers(e, frame(w.c).registers), src |-> SrcRegister(d.reg)])))
      [] atom.ak = "Expression" -> compile_expression(c, atom.expr)

\* the shared tail of Call / SelfCall: stage the arguments in a scope
stage_args(c, args) ==
    Bind(cf_push_scope(narrowed(c, Len(args))), LAMBDA p :
    Bind(cf_alloc_registers(p, as_u8(Len(args))), LAMBDA r :
    Bind(compile_args(r.c, args, r.regs, 1, zip_len(args, r.regs)), LAMBDA a :
    [c |-> cf_pop_scope(a), start |-> frame(p).registers, amount |-> as_u8(Len(args))])))

\* the head of a SelfCall: head.field goes into a new register on the line
\* of the field, the head itself into the next one on the line of the head
stage_self(c, head, field, head_ln) ==
    Bind(cf_new_register(c), LAMBDA fd :
    Bind(new_constant(fd.c, VString(field.name)), LAMBDA fk :
    Bind(write(fk.c, BcField(LocRegister(fd.reg), head, SrcConstant(fk.addr)), field.ln),
         LAMBDA fw :
    Bind(cf_new_register(fw.c), LAMBDA hd :
    Bind(move_checked(hd.c, LocRegister(hd.reg), head, head_ln), LAMBDA hm :
    [c |-> hm.c, func |-> SrcRegister(fd.reg)])))))

\* a register takes the result of the staged call
call_into_register(c, func, staged, ln) ==
    Bind(cf_new_register(c), LAMBDA d :
    Bind(write(d.c, BcCall(LocRegister(d.reg), func, staged.start, staged.amount), ln), LAMBDA w :
    [c |-> w.c, src |-> SrcRegister(d.reg)]))

\* impl Compilable for Located<Expression>: the instruction of the
\* expression itself is written on expr.ln
compile_expression(c, expr) ==
    CASE expr.ek = "Atom" -> compile_atom(c, expr.atom, expr.ln)
      [] expr.ek = "Call" ->
            Bind(compile_expression(c, expr.head), LAMBDA h :
            Bind(stage_args(h.c, expr.args), LAMBDA a :
            call_into_register(a.c, h.src, a, expr.ln)))
      [] expr.ek = "SelfCall" ->
            Bind(compile_expression(c, expr.head), LAMBDA h :
            Bind(stage_self(h.c, h.src, expr.field, expr.head.ln), LAMBDA s :
            Bind(stage_args(s.c, expr.args), LAMBDA a :
            call_into_register(a.c, s.func, a, expr.ln))))
      [] expr.ek = "Field" ->
            Bind(compile_expression(c, expr.head), LAMBDA h :
            Bind(new_constant(h.c, VString(expr.field)), LAMBDA f :
            Bind(field_into_register(f.c, h.src, SrcConstant(f.addr), expr.ln), LAMBDA w :
            [c |-> w.c, src |-> SrcRegister(w.reg)])))
      [] expr.ek = "Index" ->
            Bind(compile_expression(c, expr.head), LAMBDA h :
            Bind(compile_expression(h.c, expr.index), LAMBDA i :
            Bind(field_into_register(i.c, h.src, i.src, expr.ln), LAMBDA w :
            [c |-> w.c, src |-> SrcRegister(w.reg)])))
      [] expr.ek = "Binary" ->
            Bind(compile_expression(c, expr.left), LAMBDA l :
            Bind(compile_expression(l.c, expr.right), LAMBDA r :
            Bind(cf_new_register(r.c), LAMBDA d :
            Bind(write(d.c, BcBinary(binary_operation_from(expr.operator),
                                     LocRegister(d.reg), l.src, r.src), expr.ln), LAMBDA w :
            [c |-> w.c, src |-> source_from(LocRegister(d.reg))]))))
      [] expr.ek = "Unary" ->
            Bind(compile_expression(c, expr.right), LAMBDA r :
            Bind(cf_new_register(r.c), LAMBDA d :
            Bind(write(d.c, BcUnary(unary_operation_from(expr.operator),
                                    LocRegister(d.reg), r.src), expr.ln), LAMBDA w :
            [c |-> w.c, src |-> source_from(LocRegister(d.reg))])))

\* ------------------------------------------------------- statement lowering
\* The instructions of a `let` pattern are written on the line of the
\* statement, those of an if let / while let / for pattern on the line of
\* the pattern.
RECURSIVE bind_indexed(_, _, _, _, _)
RECURSIVE bind_keys(_, _, _, _, _)
\* Parameter::Vector | Parameter::Tuple: Field{local_i, src, Int(i)}
bind_indexed(c, idents, k, src, ln) ==
    IF k > Len(idents) THEN c
    ELSE Bind(cf_new_local(c, idents[k]), LAMBDA d :
         Bind(write(d.c, BcField(LocRegister(d.reg), src, SrcInt(k - 1)), ln), LAMBDA w :
         bind_indexed(w.c, idents, k + 1, src, ln)))
\* Parameter::Map: Field{local_k, src, Constant(k)}
bind_keys(c, keys, k, src, ln) ==
    IF k > Len(keys) THEN c
    ELSE Bind(new_constant(c, VString(keys[k])), LAMBDA f :
         Bind(cf_new_local(f.c, keys[k]), LAMBDA d :
         Bind(write(d.c, BcField(LocRegister(d.reg), src, SrcConstant(f.addr)), ln), LAMBDA w :
         bind_keys(w.c, keys, k + 1, src, ln))))

\* the `match param` of let / if let / while let / for
bind_pattern(c, param, src, ln) ==
    CASE param.pk = "Ident" ->
            Bind(cf_new_local(c, param.name), LAMBDA d :
            move_checked(d.c, LocRegister(d.reg), src, ln).c)
      [] param.pk \in {"Vector", "Tuple"} -> bind_indexed(c, param.names, 1, src, ln)
      [] param.pk = "Map" -> bind_keys(c, param.names, 1, src, ln)

\* closure.parameters += 1 on a u8
closure_parameters_inc(c) ==
    overflowed(with_frame(c, [frame(c) EXCEPT !.closure.parameters = (@ + 1) % 256]),
               frame(c).closure.parameters + 1 > 255)

RECURSIVE fn_param_indexed(_, _, _, _, _)
RECURSIVE fn_param_keys(_, _, _, _, _)
RECURSIVE fn_params(_, _, _, _)
fn_param_indexed(c, idents, k, reg, ln) ==
    IF k > Len(idents) THEN c
    ELSE Bind(cf_new_local(closure_parameters_inc(c), idents[k]), LAMBDA d :
         Bind(write(d.c, BcField(LocRegister(d.reg), SrcRegister(as_u8(reg)), SrcInt(k - 1)), ln),
              LAMBDA w :
         fn_param_indexed(w.c, idents, k + 1, reg, ln)))
fn_param_keys(c, idents, k, reg, ln) ==
    IF k > Len(idents) THEN c
    ELSE Bind(cf_new_local(closure_parameters_inc(c), idents[k]), LAMBDA d :
         Bind(new_constant(d.c, VString(idents[k])), LAMBDA f :
         Bind(write(f.c, BcField(LocRegister(d.reg), SrcRegister(as_u8(reg)), SrcConstant(f.addr)),
                    ln), LAMBDA w :
         fn_param_keys(w.c, idents, k + 1, reg, ln))))
\* one parameter of a function, bound from register `reg as u8`, reg being
\* its place in the parameter list
fn_param(c, param, reg, param_ln) ==
    CASE param.pk = "Ident" ->
            Bind(closure_parameters_inc(c), LAMBDA n : cf_set_local(n, param.name, as_u8(reg)))
      [] param.pk \in {"Tuple", "Vector"} -> fn_param_indexed(c, param.names, 1, reg, param_ln)
      [] param.pk = "Map" -> fn_param_keys(c, param.names, 1, reg, param_ln)
\* for (reg, param) in params.into_iter().enumerate(): the parameters
\* lo..hi, in order, the first half and then the second half
fn_params(c, params, lo, hi) ==
    IF lo > hi THEN c
    ELSE IF lo = hi THEN fn_param(c, params[lo].param, lo - 1, params[lo].ln)
         ELSE Bind(fn_params(c, params, lo, (lo + hi) \div 2), LAMBDA h :
              fn_params(h, params, (lo + hi) \div 2 + 1, hi))

\* Statement::Fn from push_frame to the body: a register is allocated for
\* every parameter, the varargs name becomes a local, the parameters are bound
fn_header(c, stat) ==
    Bind(cf_alloc_registers(push_frame(narrowed(c, Len(stat.params))),
                            as_u8(Len(stat.params))).c, LAMBDA a :
    Bind(IF IsSome(stat.varargs)
         THEN Bind(cf_new_local(a, stat.varargs.name).c, LAMBDA n :
              with_frame(n, [frame(n) EXCEPT !.closure.varargs = TRUE]))
         ELSE a, LAMBDA v :
    fn_params(v, stat.params, 1, Len(stat.params))))

RECURSIVE patch_all(_, _, _)
\* for addr in scope.breaks / scope.continues: overwrite_no_ln(addr, Jump{to});
\* `guarded` is the `if to != addr + 1` of Statement::While
patch_all(c, addrs, patch) ==
    IF addrs = {} THEN c
    ELSE Bind(CHOOSE a \in addrs : TRUE, LAMBDA addr :
         Bind(IF patch.guarded /\ patch.to = addr + 1 THEN c
              ELSE overwrite_no_ln(c, addr, BcJump(patch.to)), LAMBDA n :
         patch_all(n, addrs \ {addr}, patch)))

\* the tail of while / while let / for after the guard is patched: the loop
\* scope is popped and its breaks and continues become jumps
close_loop(c, start, guarded) ==
    Bind(pop_scope_loop(frame(c)), LAMBDA l :
    Bind(patch_all(with_frame(c, l.f), l.scope.breaks,
                   [to |-> addr_of(c), guarded |-> guarded]), LAMBDA b :
    patch_all(b, l.scope.continues, [to |-> start, guarded |-> guarded])))

RECURSIVE compile_statement(_, _)
RECURSIVE compile_stats(_, _, _)
\* the statement loop of a Block or Chunk: stops after a statement that returned
compile_stats(c, stats, k) ==
    IF k > Len(stats) THEN [c |-> c, returned |-> FALSE]
    ELSE Bind(compile_statement(c, stats[k]), LAMBDA r :
         IF r.returned THEN r ELSE compile_stats(r.c, stats, k + 1))

\* impl Compilable for Located<Block>
compile_block(c, stats) ==
    Bind(compile_stats(cf_push_scope(c), stats, 1), LAMBDA r :
    [c |-> cf_pop_scope(r.c), returned |-> r.returned])

compile_else(c, else_case) ==
    IF IsSome(else_case) THEN compile_block(c, else_case.block).c ELSE c

Continuing(c) == [c |-> c, returned |-> FALSE]

\* the arms of if / if let from the guard placeholder on: the case (already
\* compiled into c), the exit placeholder, the else block
else_and_exit(c, else_case) ==
    Bind(none(c), LAMBDA jump_to_exit :
    Bind(compile_else(jump_to_exit.c, else_case), LAMBDA els :
    [c |-> els, jump_to_exit |-> jump_to_exit.addr, else_addr |-> addr_of(jump_to_exit.c),
     exit |-> addr_of(els)]))

\* body, the closing continue placeholder, and the exit address of a loop
body_and_exit(c, body, ln) ==
    Bind(compile_block(c, body), LAMBDA b :
    Bind(alloc_continue(b.c, ln), LAMBDA cont :
    [c |-> cont, exit |-> addr_of(cont)]))

\* the two Call instructions of a for loop
for_iter(c, iter, ln) ==
    Bind(cf_new_register(c), LAMBDA it :
    Bind(compile_expression(it.c, iter), LAMBDA e :
    Bind(cf_new_register(e.c), LAMBDA arg :
    Bind(move_checked(arg.c, LocRegister(arg.reg), e.src, ln), LAMBDA m :
    Bind(new_constant(m.c, VString("iter")), LAMBDA func :
    Bind(write(func.c, BcCall(LocRegister(it.reg), SrcGlobal(func.addr), arg.reg, 1), ln), LAMBDA w :
    [c |-> w.c, iter |-> source_from(LocRegister(it.reg))]))))))
for_next(c, iter, ln) ==
    Bind(cf_new_register(c), LAMBDA val :
    Bind(cf_new_register(val.c), LAMBDA arg :
    Bind(move_checked(arg.c, LocRegister(arg.reg), iter, ln), LAMBDA m :
    Bind(new_constant(m.c, VString("next")), LAMBDA func :
    Bind(write(func.c, BcCall(LocRegister(val.reg), SrcGlobal(func.addr), arg.reg, 1), ln), LAMBDA w :
    [c |-> w.c, src |-> SrcRegister(val.reg)])))))

\* impl Compilable for Located<Statement>
compile_statement(c, stat) ==
    CASE stat.st = "LetBinding" ->
            Bind(compile_expression(c, stat.expr), LAMBDA e :
            Continuing(bind_pattern(e.c, stat.param, e.src, stat.ln)))
      [] stat.st = "Assign" ->
            Bind(compile_path(c, stat.path.path, stat.path.ln), LAMBDA d :
            Bind(compile_expression(d.c, stat.expr), LAMBDA e :
            IF stat.aop = "None"
            THEN Continuing(move_checked(e.c, d.loc, e.src, stat.ln).c)
            ELSE Continuing(write(e.c, BcBinary(binary_operation_from(stat.aop), d.loc,
                                                source_from(d.loc), e.src), stat.ln).c)))
      [] stat.st = "Fn" ->
            Bind(cf_new_local(c, stat.name), LAMBDA d :
            Bind(fn_header(d.c, stat), LAMBDA ps :
            Bind(compile_block(ps, stat.body).c, LAMBDA body :
            Bind(new_closure(pop_frame(body), frame(body).closure), LAMBDA k :
            Continuing(write(k.c, BcFn(LocRegister(d.reg), k.addr), stat.ln).c)))))
      [] stat.st = "Call" ->
            Bind(compile_path(c, stat.head.path, stat.head.ln), LAMBDA h :
            Bind(stage_args(h.c, stat.args), LAMBDA a :
            Continuing(write(a.c, BcCall(NoneOpt, source_from(h.loc), a.start, a.amount),
                             stat.ln).c)))
      [] stat.st = "SelfCall" ->
            Bind(compile_path(c, stat.head.path, stat.head.ln), LAMBDA h :
            Bind(stage_self(h.c, source_from(h.loc), stat.field, stat.head.ln), LAMBDA s :
            Bind(stage_args(s.c, stat.args), LAMBDA a :
            Continuing(write(a.c, BcCall(NoneOpt, s.func, a.start, a.amount), stat.ln).c))))
      [] stat.st = "Return" ->
            IF IsSome(stat.expr)
            THEN Bind(compile_expression(c, stat.expr), LAMBDA e :
                 [c |-> write(e.c, BcReturn(e.src), stat.ln).c, returned |-> TRUE])
            ELSE [c |-> write(c, BcReturn(NoneOpt), stat.ln).c, returned |-> TRUE]
      [] stat.st = "If" ->
            Bind(compile_expression(cf_push_scope(c), stat.cond), LAMBDA cond :
            Bind(none(cond.c), LAMBDA jump_to_else :
            Bind(compile_block(jump_to_else.c, stat.case).c, LAMBDA case :
            Bind(else_and_exit(case, stat.else_case), LAMBDA x :
            Bind(overwrite_jump_if(x.c, jump_to_else.addr, TRUE, cond.src, x.else_addr, stat.ln),
                 LAMBDA o :
            Continuing(cf_pop_scope(overwrite_jump(o, x.jump_to_exit, x.exit, stat.ln))))))))
      [] stat.st = "IfLet" ->
            Bind(compile_expression(cf_push_scope(c), stat.expr), LAMBDA e :
            Bind(none(e.c), LAMBDA jump_to_else :
            Bind(bind_pattern(cf_push_scope(jump_to_else.c), stat.param.param, e.src,
                              stat.param.ln),
                 LAMBDA bound :
            Bind(cf_pop_scope(compile_block(bound, stat.case).c), LAMBDA case :
            Bind(else_and_exit(case, stat.else_case), LAMBDA x :
            Bind(overwrite_jump_if_some(x.c, jump_to_else.addr, TRUE, e.src, x.else_addr, stat.ln),
                 LAMBDA o :
            Continuing(cf_pop_scope(overwrite_jump(o, x.jump_to_exit, x.exit, stat.ln)))))))))
      [] stat.st = "While" ->
            Bind(cf_push_scope(c), LAMBDA p :
            Bind(compile_expression(p, stat.cond), LAMBDA cond :
            Bind(none(cond.c), LAMBDA jump_to_exit :
            Bind(body_and_exit(jump_to_exit.c, stat.body, stat.ln), LAMBDA x :
            Bind(overwrite_jump_if(x.c, jump_to_exit.addr, TRUE, cond.src, x.exit, stat.ln),
                 LAMBDA o :
            Continuing(close_loop(o, addr_of(p), TRUE)))))))
      [] stat.st = "WhileLet" ->
            Bind(cf_push_scope(c), LAMBDA p :
            Bind(compile_expression(p, stat.expr), LAMBDA e :
            Bind(none(e.c), LAMBDA jump_to_exit :
            Bind(bind_pattern(jump_to_exit.c, stat.param.param, e.src, stat.param.ln), LAMBDA bound :
            Bind(body_and_exit(bound, stat.body, stat.ln), LAMBDA x :
            Bind(overwrite_jump_if_some(x.c, jump_to_exit.addr, TRUE, e.src, x.exit, stat.ln),
                 LAMBDA o :
            Continuing(close_loop(o, addr_of(p), FALSE))))))))
      [] stat.st = "For" ->
            Bind(for_iter(cf_push_scope(c), stat.iter, stat.ln), LAMBDA it :
            Bind(for_next(it.c, it.iter, stat.ln), LAMBDA nx :
            Bind(none(nx.c), LAMBDA jump_to_exit :
            Bind(bind_pattern(jump_to_exit.c, stat.param.param, nx.src, stat.param.ln), LAMBDA bound :
            Bind(body_and_exit(bound, stat.body, stat.ln), LAMBDA x :
            Bind(overwrite_jump_if_some(x.c, jump_to_exit.addr, TRUE, nx.src, x.exit, stat.ln),
                 LAMBDA o :
            Continuing(close_loop(o, addr_of(it.c), FALSE))))))))
      [] stat.st = "Continue" -> Continuing(alloc_continue(c, stat.ln))
      [] stat.st = "Break" -> Continuing(alloc_break(c, stat.ln))

\* impl Compilable for Located<Chunk>: the closure of the chunk, and the
\* compiler it leaves
compile_chunk(c, chunk) ==
    Bind(compile_stats(push_frame(c), chunk.stats, 1).c, LAMBDA body :
    Bind(return_safe(body, chunk.ln).c, LAMBDA safe :
    [c |-> pop_frame(safe), closure |-> frame(safe).closure]))

\* lib.rs compile::<Chunk>
compile(chunk) == compile_chunk(NewCompiler, chunk)

\* ------------------------------------------------------------ interpreter
\* Function { closure } behind its Arc<Mutex<..>>
FunctionCell(closure) == [cell |-> "Function", closure |-> closure]

\* CallFrame { idx, closure, stack, dst }; register r is stack[r + 1]
CallFrame(closure, stack, dst) == [idx |-> 0, closure |-> closure, stack |-> stack, dst |-> dst]

\* Interpreter::call_frame (callers test the call stack for emptiness first)
call_frame(i) == Last(i.call_stack)
with_call_frame(i, cf) == [i EXCEPT !.call_stack = SetLast(@, cf)]

\* Vec::get / HashMap::get: the element, or None
get(seq, index) == IF index + 1 \in DOMAIN seq THEN seq[index + 1] ELSE NoneOpt
unwrap_or_default(option) == IF IsSome(option) THEN option ELSE VNull

\* the global named by constant addr of the running closure, or None
global_name(i, addr) ==
    LET k == get(call_frame(i).closure.constants, addr)
    IN IF IsSome(k) /\ k.t = "String" THEN k ELSE NoneOpt

\* Interpreter::source
source(i, src) ==
    IF src.s = "Null" THEN VNull
    ELSE IF src.s = "Bool" THEN VBool(src.b)
    ELSE IF src.s = "Char" THEN VChar(src.ch)
    ELSE IF src.s = "Int" THEN VInt(src.i)
    ELSE IF src.s = "Float" THEN VFloat(src.num)
    ELSE IF i.call_stack = <<>> THEN NoneOpt
    ELSE IF src.s = "Register" THEN get(call_frame(i).stack, src.reg)
    ELSE IF src.s = "Global" THEN
        LET var == global_name(i, src.k)
        IN IF IsSome(var) /\ var.s \in DOMAIN i.globals THEN i.globals[var.s] ELSE NoneOpt
    ELSE get(call_frame(i).closure.constants, src.k)

\* Interpreter::location: None, or the interpreter in which the cell exists
\* (a missing global is created holding Null)
location(i, dst) ==
    IF i.call_stack = <<>> THEN NoneOpt
    ELSE IF dst.loc = "Register" THEN
        IF dst.reg < Len(call_frame(i).stack) THEN i ELSE NoneOpt
    ELSE LET var == global_name(i, dst.k)
         IN IF ~IsSome(var) THEN NoneOpt
            ELSE IF var.s \in DOMAIN i.globals THEN i
            ELSE [i EXCEPT !.globals = [n \in (DOMAIN @) \cup {var.s} |->
                                            IF n = var.s THEN VNull ELSE @[n]]]

\* *cell.lock().unwrap() = value, for the cell location(i, dst) found in i
store(i, dst, value) ==
    IF dst.loc = "Register"
    THEN with_call_frame(i, [call_frame(i) EXCEPT !.stack[dst.reg + 1] = value])
    ELSE [i EXCEPT !.globals[global_name(i, dst.k).s] = value]

Nulls(n) == [k \in 1..n |-> VNull]
Take(seq, n) == SubSeq(seq, 1, IF n < Len(seq) THEN n ELSE Len(seq))
Drop(seq, n) == SubSeq(seq, n + 1, Len(seq))

\* Interpreter::call with `fixed` = closure.parameters - if varargs {1} else {0}
\* as the u8 subtraction produced it; the varargs vector takes a new heap cell
call_with(i, h, closure, args, dst, fixed) ==
    LET slots == Take(args, fixed + 1) \o Nulls(fixed + 1 - Len(Take(args, fixed + 1)))
        rest == Drop(args, fixed + 1)
        vararg == IF closure.varargs THEN <<VVector(Len(h) + 1)>> ELSE <<>>
        pad == IF closure.parameters <= closure.registers
               THEN Nulls(closure.registers - closure.parameters + 1) ELSE <<>>
    IN [vm |-> [i EXCEPT !.call_stack = Append(@, CallFrame(closure, slots \o vararg \o pad, dst))],
        h |-> IF closure.varargs THEN Append(h, VectorCell(rest)) ELSE h]

\* Interpreter::call: the set of outcomes; `parameters - 1` below zero panics
\* under overflow checks and wraps to 255 without them
call(i, h, closure, args, dst) ==
    LET fixed == closure.parameters - (IF closure.varargs THEN 1 ELSE 0)
    IN IF fixed >= 0
       THEN {[out |-> "ok"] @@ call_with(i, h, closure, args, dst, fixed)}
       ELSE {[out |-> "panic", vm |-> i, h |-> h],
             [out |-> "ok"] @@ call_with(i, h, closure, args, dst, fixed + 256)}

\* Interpreter::return_call with the frame popped and nothing written
return_call_dropped(i, src) ==
    [vm |-> [i EXCEPT !.call_stack = Front(@)],
     value |-> IF IsSome(call_frame(i).dst) THEN NoneOpt ELSE source(i, src)]
\* Interpreter::return_call
return_call(i, src) ==
    LET return_value == source(i, src)
        dst == call_frame(i).dst
        popped == [i EXCEPT !.call_stack = Front(@)]
        cell == location(popped, dst)
    IN IF IsSome(dst)
       THEN [vm |-> IF IsSome(cell) THEN store(cell, dst, unwrap_or_default(return_value))
                   ELSE popped,
             value |-> NoneOpt]
       ELSE [vm |-> popped, value |-> return_value]

\* Interpreter::instr
instr(i) ==
    IF i.call_stack = <<>> THEN NoneOpt
    ELSE get(call_frame(i).closure.code, call_frame(i).idx)
\* Interpreter::ln as step reads it, self.ln().unwrap_or_default()
ln_at(i) ==
    IF i.call_stack # <<>> /\ call_frame(i).idx + 1 \in DOMAIN call_frame(i).closure.lines
    THEN call_frame(i).closure.lines[call_frame(i).idx + 1]
    ELSE 0
\* Interpreter::closure
closure(i, addr) ==
    IF i.call_stack = <<>> THEN NoneOpt
    ELSE get(call_frame(i).closure.closures, addr)

\* what step() returned: Ok(ret), Err(err), or a panic
NoError == [kind |-> "none"]
Stepped(i, h, opt) == [out |-> "ok", vm |-> i, h |-> h, ret |-> opt, err |-> NoError]
Raised(i, h, err) == [out |-> "err", vm |-> i, h |-> h, ret |-> NoneOpt, err |-> err]
Panicked(i, h) == [out |-> "panic", vm |-> i, h |-> h, ret |-> NoneOpt, err |-> NoError]
\* step() never returned: the thread waits for a Mutex it holds itself
Deadlocked(i, h) == [out |-> "deadlock", vm |-> i, h |-> h, ret |-> NoneOpt, err |-> NoError]
\* lock() on a Mutex the thread already holds panics or deadlocks
Relocked(i, h) == {Panicked(i, h), Deadlocked(i, h)}
\* Some(x) where x is itself an Option
Some(x) == [some |-> x]
CannotCall(t, line) == [kind |-> "CannotCall", typ |-> t, ln |-> line]

\* the u8 range start..(start + amount).  When start + amount passes 255 a
\* build with overflow checks panics; a build without them wraps the end
\* below start, which leaves the range empty.
register_range(start, amount) ==
    IF start + amount <= 255
    THEN {[out |-> "ok", regs |-> [k \in 1..amount |-> start + k - 1]]}
    ELSE {[out |-> "panic", regs |-> <<>>], [out |-> "ok", regs |-> <<>>]}
\* the registers of that range in the running frame, as source() reads them
read_registers(i, start, amount) ==
    {[out |-> range.out,
      values |-> [k \in DOMAIN range.regs |-> source(i, SrcRegister(range.regs[k]))]] :
        range \in register_range(start, amount)}
AllSome(options) == \A k \in DOMAIN options : IsSome(options[k])

IllegalUnaryOperation(h, op, right) ==
    [kind |-> "IllegalUnaryOperation", op |-> op, right |-> typ(h, right)]
\* RunTimeError { err, ln }
RunTimeError(err, line) == [ln |-> line] @@ err

\* the Field arm of step once dst, head and field are at hand: the match is
\* the one of Value::field written out again, without the NativeObject arm
step_field(cell, h, dst, head, fld, line) ==
    {CASE r.st = "ok" -> Stepped(store(cell, dst, r.val), h, NoneOpt)
       [] r.st = "err" -> Raised(cell, h, RunTimeError(r.err, line))
       [] r.st = "panic" -> Panicked(cell, h) :
     r \in IF head.t = "NativeObject" THEN {FieldErr(InvalidFieldHead(h, head))}
           ELSE value_field(h, head, fld)}

\* the SetField arm of step: the match of Value::set_field written out again
step_set_field(n, h, head, fld, src, line) ==
    {CASE r.st = "ok" -> Stepped(n, r.h, NoneOpt)
       [] r.st = "err" -> Raised(n, h, RunTimeError(r.err, line))
       [] r.st = "panic" -> Panicked(n, h) :
     r \in set_field(h, head, fld, src)}

\* the Binary arm of step: the operator match of Value::binary written out
\* again, without the element-wise branch for two tuples and with todo!()
\* in the Is and As arms
step_binary(cell, h, bc, left, right, line) ==
    IF bc.bop \in {"EE", "NE"} /\ eq(h, left, right, {}) = "lock" THEN Relocked(cell, h)
    ELSE IF bc.bop \in {"Is", "As"} THEN {Panicked(cell, h)}
    ELSE Bind(binary_match(h, bc.bop, left, right, {}), LAMBDA r :
            IF r.st = "ok" THEN {Stepped(store(cell, bc.dst, r.val), h, NoneOpt)}
            ELSE IF r.st = "err" THEN {Raised(cell, h, RunTimeError(r.err, line))}
            ELSE IF r.st = "lock" THEN Relocked(cell, h)
            ELSE {Panicked(cell, h)})

\* the Unary arm of step
step_unary(cell, h, bc, right, line) ==
    IF bc.uop = "Not" THEN {Stepped(store(cell, bc.dst, VBool(~bool_from(right))), h, NoneOpt)}
    ELSE IF right.t = "Int" THEN {Stepped(store(cell, bc.dst, VInt(0 - right.i)), h, NoneOpt)}
    ELSE IF right.t = "Float" THEN {Stepped(store(cell, bc.dst, VFloat(0 - right.num)), h, NoneOpt)}
    ELSE {Raised(cell, h, RunTimeError(IllegalUnaryOperation(h, bc.uop, right), line))}

\* Interpreter::step: the set of its outcomes
step(i, h) ==
    LET line == ln_at(i)
        bc == instr(i)
        n == with_call_frame(i, [call_frame(i) EXCEPT !.idx = @ + 1])
        jump == with_call_frame(i, [call_frame(i) EXCEPT !.idx = bc.addr])
    IN IF ~IsSome(bc) THEN {Panicked(i, h)}
       ELSE CASE bc.op = "None" -> {Stepped(n, h, NoneOpt)}
         [] bc.op = "Jump" -> {Stepped(jump, h, NoneOpt)}
         [] bc.op = "JumpIf" ->
               LET cond == unwrap_or_default(source(n, bc.cond))
               IN {Stepped(IF bool_from(cond) /\ ~bc.negative THEN jump ELSE n, h, NoneOpt)}
         [] bc.op = "JumpIfSome" ->
               LET src == unwrap_or_default(source(n, bc.src))
               IN {Stepped(IF eq(h, src, VNull, {}) = "true" /\ ~bc.negative THEN jump ELSE n,
                           h, NoneOpt)}
         [] bc.op = "Call" ->
               LET func == source(n, bc.func)
               IN IF ~IsSome(func) THEN {Panicked(n, h)}
                  ELSE UNION {
                    IF args.out = "panic" \/ ~AllSome(args.values) THEN {Panicked(n, h)}
                    ELSE IF func.t = "Fn" /\ func.kind = "Function"
                    THEN {IF r.out = "ok" THEN Stepped(r.vm, r.h, NoneOpt) ELSE Panicked(n, h) :
                              r \in call(n, h, h[func.p].closure, args.values, bc.dst)}
                    ELSE IF func.t = "Fn" THEN {Panicked(n, h)}
                    ELSE {Raised(n, h, CannotCall(typ(h, func), line))} :
                        args \in read_registers(n, bc.start, bc.amount)}
         [] bc.op = "Return" ->
               LET r == return_call(n, IF IsSome(bc.src) THEN bc.src ELSE SrcNull)
               IN {Stepped(r.vm, h, Some(r.value))}
         [] bc.op = "Move" ->
               LET cell == location(n, bc.dst)
                   value == IF IsSome(cell) THEN source(cell, bc.src) ELSE NoneOpt
               IN IF ~IsSome(cell) \/ ~IsSome(value) THEN {Panicked(n, h)}
                  ELSE {Stepped(store(cell, bc.dst, value), h, NoneOpt)}
         [] bc.op \in {"Vector", "Tuple"} ->
               LET cell == location(n, bc.dst)
               IN IF ~IsSome(cell) THEN {Panicked(n, h)}
                  ELSE {LET values == [k \in DOMAIN read.values |->
                                         unwrap_or_default(read.values[k])]
                        IN IF read.out = "panic" THEN Panicked(n, h)
                           ELSE IF bc.op = "Vector"
                           THEN Stepped(store(cell, bc.dst, VVector(Len(h) + 1)),
                                        Append(h, VectorCell(values)), NoneOpt)
                           ELSE Stepped(store(cell, bc.dst, VTuple(Len(h) + 1)),
                                        Append(h, TupleCell(values)), NoneOpt) :
                            read \in read_registers(cell, bc.start, bc.amount)}
         [] bc.op = "Fn" ->
               LET cell == location(n, bc.dst)
                   fn_closure == closure(n, bc.addr)
               IN IF ~IsSome(cell) \/ ~IsSome(fn_closure) THEN {Panicked(n, h)}
                  ELSE {Stepped(store(cell, bc.dst, VFn("Function", Len(h) + 1)),
                                Append(h, FunctionCell(fn_closure)), NoneOpt)}
         [] bc.op = "Field" ->
               LET cell == location(n, bc.dst)
                   head == IF IsSome(cell) THEN source(cell, bc.head) ELSE NoneOpt
                   fld == IF IsSome(cell) THEN source(cell, bc.field) ELSE NoneOpt
               IN IF ~IsSome(cell) \/ ~IsSome(head) \/ ~IsSome(fld) THEN {Panicked(n, h)}
                  ELSE step_field(cell, h, bc.dst, head, fld, line)
         [] bc.op = "SetField" ->
               LET head == source(n, bc.head)
                   fld == source(n, bc.field)
                   src == source(n, bc.src)
               IN IF ~IsSome(head) \/ ~IsSome(fld) \/ ~IsSome(src) THEN {Panicked(n, h)}
                  ELSE step_set_field(n, h, head, fld, src, line)
         [] bc.op = "Map" ->
               LET cell == location(n, bc.dst)
               IN IF ~IsSome(cell) THEN {Panicked(n, h)}
                  ELSE {Stepped(store(cell, bc.dst, VMap(Len(h) + 1)),
                                Append(h, MapCell(NoEntries)), NoneOpt)}
         [] bc.op = "Binary" ->
               LET cell == location(n, bc.dst)
                   left == IF IsSome(cell) THEN source(cell, bc.left) ELSE NoneOpt
                   right == IF IsSome(cell) THEN source(cell, bc.right) ELSE NoneOpt
               IN IF ~IsSome(cell) \/ ~IsSome(left) \/ ~IsSome(right) THEN {Panicked(n, h)}
                  ELSE step_binary(cell, h, bc, left, right, line)
         [] bc.op = "Unary" ->
               LET cell == location(n, bc.dst)
                   right == IF IsSome(cell) THEN source(cell, bc.right) ELSE NoneOpt
               IN IF ~IsSome(cell) \/ ~IsSome(right) THEN {Panicked(n, h)}
                  ELSE step_unary(cell, h, bc, right, line)

\* ------------------------------------------------------- value operations
\* Operands for the binary operators and the bool conversion: every scalar
\* kind, the type names, handles of vectors, a map, functions and native
\* objects, and tuples.  Each tuple content is on the heap under two handles,
\* so that equal contents meet under different handles as well as under the
\* same one.
RECURSIVE SetToSeq(_)
SetToSeq(S) == IF S = {} THEN <<>>
               ELSE LET x == CHOOSE y \in S : TRUE IN <<x>> \o SetToSeq(S \ {x})

TupleElems == {VInt(1), VInt(2)}
TupleContents == UNION {[1..n -> TupleElems] : n \in 0..MaxTupleLen}
BaseTuples == SetToSeq(TupleContents)
NBase == Len(BaseTuples)
FirstHandle(content) == CHOOSE k \in 1..NBase : BaseTuples[k] = content
SecondHandle(content) == NBase + FirstHandle(content)
ExtraTuples ==
    << <<VFloat(2)>>,
       <<VFloat(2), VInt(2)>>,
       <<VTuple(FirstHandle(<<VInt(1)>>))>>,
       <<VTuple(SecondHandle(<<VInt(1)>>))>>,
       <<VTuple(FirstHandle(<<>>))>>,
       <<VTuple(2 * NBase + 3)>>,
       <<VString("a"), VNull>> >>
NTuples == 2 * NBase + Len(ExtraTuples)
ValueCells ==
    << VectorCell(<<VInt(1), VInt(2)>>),
       VectorCell(<<VTuple(FirstHandle(<<VInt(1)>>))>>),
       MapCell([key \in {"a"} |-> VInt(1)]),
       FunctionCell(DefaultClosure),
       FunctionCell(DefaultClosure),
       ErrorObject("a", NoPath, 0),
       IteratorObject(1) >>
ValueHeap == [k \in 1..(NTuples + Len(ValueCells)) |->
                IF k <= NBase THEN TupleCell(BaseTuples[k])
                ELSE IF k <= 2 * NBase THEN TupleCell(BaseTuples[k - NBase])
                ELSE IF k <= NTuples THEN TupleCell(ExtraTuples[k - 2 * NBase])
                ELSE ValueCells[k - NTuples]]
TypeNames == {"int", "float", "bool", "char", "str", "vec", "tuple", "map", "error"}
Scalars == {VNull, VInt(-2), VInt(-1), VInt(0), VInt(1), VInt(2), VFloat(0), VFloat(1), VFloat(2),
            VBool(TRUE), VBool(FALSE), VChar(0), VChar(97), VChar(256),
            VString(""), VString("a")} \cup {VString(name) : name \in TypeNames}
Handles == {VVector(NTuples + 1), VVector(NTuples + 2), VMap(NTuples + 3),
            VFn("Function", NTuples + 4), VFn("Function", NTuples + 5), VFn("Native", 1),
            VNativeObject(NTuples + 6), VNativeObject(NTuples + 7)}
Operands == Scalars \cup Handles \cup {VTuple(k) : k \in 1..NTuples}

NoOutcome == [st |-> "none", val |-> VNull, err |-> [kind |-> "none"]]
Returned(v) == [st |-> "ok", val |-> v, err |-> [kind |-> "none"]]
\* locking a Mutex the thread already holds panics or deadlocks
NoReturn == {[st |-> how, val |-> VNull, err |-> [kind |-> "none"]] : how \in {"panic", "deadlock"}}

NoRet == [addr |-> 0, arg |-> VNull]
\* no fold of std_vector.rs _reduce is in progress
NoFold == [opt |-> "None"]
NotRunning(status) == [status |-> status, offset |-> 0, result |-> NoneOpt, fold |-> NoFold]
ValueIdle ==
    /\ heap = <<>>
    /\ operands = [l |-> VNull, r |-> VNull]
    /\ outcome = NoOutcome
CompilerIdle ==
    /\ compiler = Compiler(<<>>)
    /\ cstatus = "ok"
    /\ ret = NoRet
RunIdle ==
    /\ ast = NoneOpt
    /\ compiled = NoneOpt
    /\ interpreter = [call_stack |-> <<>>, globals |-> NoLocals]
    /\ running = NotRunning("idle")
run_vars == <<ast, compiled, interpreter, running>>
compiler_vars == <<compiler, cstatus, ret>>
value_vars == <<heap, operands, outcome>>

ValueInit ==
    /\ heap = ValueHeap
    /\ operands \in [l : Operands, r : Operands]
    /\ applied = "none"
    /\ outcome = NoOutcome
    /\ CompilerIdle
    /\ RunIdle

\* left == right
ApplyEq ==
    /\ applied = "none"
    /\ applied' = "eq"
    /\ LET r == eq(heap, operands.l, operands.r, {})
       IN IF r = "lock" THEN outcome' \in NoReturn ELSE outcome' = Returned(VBool(r = "true"))
    /\ UNCHANGED <<heap, operands, compiler_vars, run_vars>>

\* the operands whose result the value model can write down: a float result
\* that is a number of halves, and a text that holds no address
Representable(h, op, l, r) ==
    /\ (op \in {"Mul", "Div", "Mod", "Pow"} /\ IsNumber(l) /\ IsNumber(r)
            /\ "Float" \in {l.t, r.t})
        => IF op = "Pow" THEN powf_exact(halves_of(l), halves_of(r))
           ELSE float_exact(op, halves_of(l), halves_of(r))
    /\ (op = "As" /\ r = VString("str")) => Printable(h, l, Len(h))

\* Value::binary(op, left, right, ln)
ApplyBinary(op) ==
    /\ applied = "none"
    /\ Representable(heap, op, operands.l, operands.r)
    /\ applied' = op
    /\ LET r == binary(heap, op, operands.l, operands.r, {})
       IN /\ heap' = r.h
          /\ IF r.st = "lock" THEN outcome' \in NoReturn
             ELSE outcome' = [st |-> r.st, val |-> r.val, err |-> r.err]
    /\ UNCHANGED <<operands, compiler_vars, run_vars>>

\* bool::from(value)
ApplyBool ==
    /\ applied = "none"
    /\ applied' = "bool"
    /\ outcome' = Returned(VBool(bool_from(operands.l)))
    /\ UNCHANGED <<heap, operands, compiler_vars, run_vars>>

ValueNext ==
    \/ ApplyEq
    \/ \E op \in BinaryOperations : ApplyBinary(op)
    \/ ApplyBool

ValueSpec == ValueInit /\ [][ValueNext]_vars

\* -------------------------------------------------------- field operations
\* Heads for field reads and writes: for every length up to MaxTupleLen a
\* vector and a tuple holding 10, 20, .. on the heap, one map, strings, and
\* values that are no containers.
Prefix(n) == [k \in 1..n |-> VInt(10 * k)]
NLengths == MaxTupleLen + 1
FieldMap == 2 * NLengths + 1
FieldObjects == <<ErrorObject("a", NoPath, 3), ErrorObject("a", SomePath("ab"), 0)>>
FieldHeap == [k \in 1..(FieldMap + Len(FieldObjects)) |->
                IF k <= NLengths THEN VectorCell(Prefix(k - 1))
                ELSE IF k <= 2 * NLengths THEN TupleCell(Prefix(k - NLengths - 1))
                ELSE IF k = FieldMap THEN MapCell([key \in {"a"} |-> VInt(10)])
                ELSE FieldObjects[k - FieldMap]]
FieldStrings == {"", "a", "ab", "é"}
FieldHeads ==
    {VString(s) : s \in FieldStrings}
        \cup {VVector(k) : k \in 1..NLengths}
        \cup {VTuple(NLengths + k) : k \in 1..NLengths}
        \cup {VNativeObject(FieldMap + k) : k \in DOMAIN FieldObjects}
        \cup {VMap(FieldMap), VInt(0), VNull}
FieldKeys ==
    {VInt(i) : i \in (0 - (MaxTupleLen + 2))..(MaxTupleLen + 1)}
        \cup {VString("a"), VString("b"), VString("msg"), VString("path"), VString("ln"), VNull}
FieldSources == {VInt(7), VNull}

FieldInit ==
    /\ heap = FieldHeap
    /\ operands \in [l : FieldHeads, r : FieldKeys, src : FieldSources]
    /\ applied = "none"
    /\ outcome = NoOutcome
    /\ CompilerIdle
    /\ RunIdle

\* head.field(field, ln)
ApplyField ==
    /\ applied = "none"
    /\ applied' = "field"
    /\ outcome' \in value_field(heap, operands.l, operands.r)
    /\ UNCHANGED <<heap, operands, compiler_vars, run_vars>>

\* head.set_field(field, src, ln)
ApplySetField ==
    /\ applied = "none"
    /\ applied' = "set_field"
    /\ \E r \in set_field(heap, operands.l, operands.r, operands.src) :
          /\ heap' = r.h
          /\ outcome' = [st |-> r.st, val |-> VNull, err |-> r.err]
    /\ UNCHANGED <<operands, compiler_vars, run_vars>>

FieldNext == ApplyField \/ ApplySetField

FieldSpec == FieldInit /\ [][FieldNext]_vars

\* ------------------------------------------------ compiler emission calls
\* The state after lib.rs compile() built the Compiler and the chunk's
\* compile() pushed its frame.
CompilerStart ==
    push_frame(NewCompiler)

CodeLen == Len(frame(compiler).closure.code)
EmitLines == {1}
EmitSources == {SrcRegister(0), SrcInt(1)}
EmitOps == {BcMove(LocRegister(0), SrcInt(1)), BcReturn(NoneOpt)}
\* jump targets: the start of the code and its end
JumpTargets == {0, MaxCode}
Returning(r) == ret' = [addr |-> r, arg |-> VNull]
Panic == cstatus' = "panic" /\ UNCHANGED <<compiler, ret>>

EmitInit ==
    /\ ValueIdle
    /\ RunIdle
    /\ applied = "none"
    /\ compiler = CompilerStart
    /\ cstatus = "ok"
    /\ ret = NoRet

Write(bytecode, ln) ==
    /\ cstatus = "ok" /\ CodeLen < MaxCode
    /\ applied' = "write"
    /\ LET w == write(compiler, bytecode, ln) IN compiler' = w.c /\ Returning(w.addr)
    /\ UNCHANGED <<run_vars, value_vars, cstatus>>

WriteNone ==
    /\ cstatus = "ok" /\ CodeLen < MaxCode
    /\ applied' = "none"
    /\ LET w == none(compiler) IN compiler' = w.c /\ Returning(w.addr)
    /\ UNCHANGED <<run_vars, value_vars, cstatus>>

\* on a frame without a scope the call panics, the placeholder written
AllocBreak(ln) ==
    /\ cstatus = "ok" /\ CodeLen < MaxCode
    /\ applied' = "alloc_break"
    /\ compiler' = alloc_break(compiler, ln)
    /\ cstatus' = IF compiler'.panicked THEN "panic" ELSE "ok"
    /\ UNCHANGED <<run_vars, value_vars, ret>>

AllocContinue(ln) ==
    /\ cstatus = "ok" /\ CodeLen < MaxCode
    /\ applied' = "alloc_continue"
    /\ compiler' = alloc_continue(compiler, ln)
    /\ cstatus' = IF compiler'.panicked THEN "panic" ELSE "ok"
    /\ UNCHANGED <<run_vars, value_vars, ret>>

\* Frame::pop_scope on the frame the calls write to: a block has ended
EndScope ==
    /\ cstatus = "ok"
    /\ applied' = "pop_scope"
    /\ compiler' = with_frame(compiler, pop_scope(frame(compiler)))
    /\ UNCHANGED <<run_vars, value_vars, cstatus, ret>>

ReturnSafe(ln) ==
    /\ cstatus = "ok" /\ CodeLen < MaxCode
    /\ applied' = "return_safe"
    /\ LET w == return_safe(compiler, ln) IN compiler' = w.c /\ Returning(w.addr)
    /\ UNCHANGED <<run_vars, value_vars, cstatus>>

\* With dst = src on empty code, code.len() - 1 overflows usize: a panic in
\* a build with overflow checks, usize::MAX (shown as -1) without them.
MoveChecked(dst, src, ln) ==
    /\ cstatus = "ok" /\ CodeLen < MaxCode
    /\ applied' = "move_checked"
    /\ UNCHANGED <<run_vars, value_vars, run_vars>>
    /\ IF eq_source(dst, src) /\ CodeLen = 0
       THEN \E overflow_checks \in BOOLEAN :
              IF overflow_checks THEN Panic
              ELSE compiler' = compiler /\ Returning(-1) /\ UNCHANGED cstatus
       ELSE LET w == move_checked(compiler, dst, src, ln)
            IN compiler' = w.c /\ Returning(w.addr) /\ UNCHANGED cstatus

\* code[addr] with addr >= code.len() panics before anything is stored
Overwrite(addr, bytecode, ln) ==
    /\ cstatus = "ok"
    /\ applied' = "overwrite"
    /\ UNCHANGED <<run_vars, value_vars, run_vars>>
    /\ IF addr >= CodeLen THEN Panic
       ELSE compiler' = overwrite(compiler, addr, bytecode, ln) /\ UNCHANGED <<cstatus, ret>>

OverwriteNoLn(addr, bytecode) ==
    /\ cstatus = "ok"
    /\ applied' = "overwrite_no_ln"
    /\ UNCHANGED <<run_vars, value_vars, run_vars>>
    /\ IF addr >= CodeLen THEN Panic
       ELSE compiler' = overwrite_no_ln(compiler, addr, bytecode) /\ UNCHANGED <<cstatus, ret>>

OverwriteJump(addr, to, ln) ==
    /\ cstatus = "ok"
    /\ applied' = "overwrite_jump"
    /\ UNCHANGED <<run_vars, value_vars, run_vars>>
    /\ IF to # addr + 1 /\ addr >= CodeLen THEN Panic
       ELSE compiler' = overwrite_jump(compiler, addr, to, ln) /\ UNCHANGED <<cstatus, ret>>

OverwriteJumpIf(addr, negative, cond, to, ln) ==
    /\ cstatus = "ok"
    /\ applied' = "overwrite_jump_if"
    /\ UNCHANGED <<run_vars, value_vars, run_vars>>
    /\ IF to # addr + 1 /\ addr >= CodeLen THEN Panic
       ELSE /\ compiler' = overwrite_jump_if(compiler, addr, negative, cond, to, ln)
            /\ UNCHANGED <<cstatus, ret>>

OverwriteJumpIfSome(addr, negative, src, to, ln) ==
    /\ cstatus = "ok"
    /\ applied' = "overwrite_jump_if_some"
    /\ UNCHANGED <<run_vars, value_vars, run_vars>>
    /\ IF to # addr + 1 /\ addr >= CodeLen THEN Panic
       ELSE /\ compiler' = overwrite_jump_if_some(compiler, addr, negative, src, to, ln)
            /\ UNCHANGED <<cstatus, ret>>

EmitNext ==
    \/ \E bytecode \in EmitOps, ln \in EmitLines : Write(bytecode, ln)
    \/ WriteNone
    \/ \E ln \in EmitLines : AllocBreak(ln)
    \/ \E ln \in EmitLines : AllocContinue(ln)
    \/ EndScope
    \/ \E ln \in EmitLines : ReturnSafe(ln)
    \/ \E dst \in {LocRegister(0)}, src \in EmitSources, ln \in EmitLines : MoveChecked(dst, src, ln)
    \/ \E addr \in 0..MaxCode, bytecode \in EmitOps, ln \in EmitLines : Overwrite(addr, bytecode, ln)
    \/ \E addr \in 0..MaxCode, to \in JumpTargets : OverwriteNoLn(addr, BcJump(to))
    \/ \E addr \in 0..MaxCode, to \in JumpTargets, ln \in EmitLines : OverwriteJump(addr, to, ln)
    \/ \E addr \in 0..MaxCode, to \in JumpTargets, ln \in EmitLines :
          OverwriteJumpIf(addr, TRUE, SrcRegister(0), to, ln)
    \/ \E addr \in 0..MaxCode, to \in JumpTargets, ln \in EmitLines :
          OverwriteJumpIfSome(addr, TRUE, SrcRegister(0), to, ln)

EmitSpec == EmitInit /\ [][EmitNext]_vars

\* C6: after any sequence of emission calls, code and lines of every frame's
\* closure have the same length.
C6_CodeLinesParallel ==
    \A k \in 1..Len(compiler.frame_stack) :
        Len(compiler.frame_stack[k].closure.code) = Len(compiler.frame_stack[k].closure.lines)

\* return_safe has appended a Return to code that did not end in one, and a
\* jump slot has been patched
C6_Witness ==
    /\ applied = "return_safe"
    /\ CodeLen = MaxCode
    /\ ret.addr = CodeLen - 1
    /\ \E k \in 1..CodeLen : frame(compiler).closure.code[k].op = "JumpIf"
    /\ Len(frame(compiler).closure.lines) = MaxCode

\* ------------------------------------------------------ the constants pool
ConstantNames == {"a", "b", "iter", "next"}

ConstInit ==
    /\ ValueIdle
    /\ RunIdle
    /\ applied = "none"
    /\ compiler = CompilerStart
    /\ cstatus = "ok"
    /\ ret = NoRet

NewConstant(value) ==
    /\ cstatus = "ok"
    /\ \/ Len(frame(compiler).closure.constants) < MaxConstants
       \/ position(frame(compiler).closure.constants, value, 1) >= 0
    /\ applied' = "new_constant"
    /\ LET r == new_constant(compiler, value)
       IN compiler' = r.c /\ ret' = [addr |-> r.addr, arg |-> value]
    /\ UNCHANGED <<run_vars, value_vars, cstatus>>

\* a nested `fn` starts a frame with its own pool
PushFrame ==
    /\ cstatus = "ok"
    /\ Len(compiler.frame_stack) < MaxFrames
    /\ applied' = "push_frame"
    /\ compiler' = push_frame(compiler)
    /\ UNCHANGED <<run_vars, value_vars, cstatus, ret>>

ConstNext ==
    \/ \E name \in ConstantNames : NewConstant(VString(name))
    \/ PushFrame

ConstSpec == ConstInit /\ [][ConstNext]_vars

Constants(c) == frame(c).closure.constants
IsPrefix(p, q) == Len(p) <= Len(q) /\ SubSeq(q, 1, Len(p)) = p
NoEqualEntries(pool) ==
    \A i, j \in 1..Len(pool) : i # j => eq(<<>>, pool[i], pool[j], {}) # "true"

\* C7: across new_constant calls on one frame the pool holds no two equal
\* entries, it only grows at the end (an index keeps denoting its value), and
\* the returned index i has constants[i] == v.
C7_ConstantsInterned ==
    [][applied' = "new_constant" =>
          /\ NoEqualEntries(Constants(compiler'))
          /\ IsPrefix(Constants(compiler), Constants(compiler'))
          /\ ret'.addr < Len(Constants(compiler'))
          /\ eq(<<>>, Constants(compiler')[ret'.addr + 1], ret'.arg, {}) = "true"]_vars

\* a name that is already in a pool of several entries has been interned
\* again and got its old slot back
C7_Witness ==
    /\ applied = "new_constant"
    /\ Len(Constants(compiler)) = MaxConstants
    /\ ret.addr = 1
    /\ Constants(compiler)[2] = ret.arg

\* ------------------------------------------------- compiling and running
\* lib.rs run: compile the chunk, call its closure with `args` and no dst, and
\* run the interpreter until that call has returned.  A closure can also be
\* built by hand (its fields are public) and handed to Interpreter::call.
\* The chunks below are written as trees: a statement carries the line
\* written for it, every node below a statement Position::default().
IntLit(n) == EAtom(0, AtomInt(n))
BoolLit(b) == EAtom(0, AtomBool(b))
Var(name) == EAtom(0, AtomPath(PathIdent(name)))
Chunk(stats) == [ln |-> 1, stats |-> stats]

CondAtoms == {AtomBool(TRUE), AtomBool(FALSE), AtomNull, AtomInt(0), AtomInt(1)}
\* the value a literal atom evaluates to
LiteralValue(atom) ==
    CASE atom.ak = "Null" -> VNull
      [] atom.ak = "Bool" -> VBool(atom.b)
      [] atom.ak = "Int" -> VInt(atom.i)

\* if cond / return 1 / else / return 2
IfElse(cond) ==
    Chunk(<<SIf(1, EAtom(0, cond), <<SReturn(2, IntLit(1))>>, SomeBlock(<<SReturn(4, IntLit(2))>>))>>)
\* if cond / return 1 // return 2
IfOnly(cond) ==
    Chunk(<<SIf(1, EAtom(0, cond), <<SReturn(2, IntLit(1))>>, NoneOpt), SReturn(3, IntLit(2))>>)
\* if let x = e / return 1 / else / return 2
IfLetElse(e) ==
    Chunk(<<SIfLet(1, LocatedParam(0, PIdent("x")), EAtom(0, e), <<SReturn(2, IntLit(1))>>,
                   SomeBlock(<<SReturn(4, IntLit(2))>>))>>)
\* fn f() / body // let r = f() // return r
FnResult(body) ==
    Chunk(<<SFn(1, "f", <<>>, NoneOpt, body),
            SLet(5, PIdent("r"), ECall(0, Var("f"), <<>>)),
            SReturn(6, Var("r"))>>)
\* fn f() / body // f() // return 5
FnStatement(body) ==
    Chunk(<<SFn(1, "f", <<>>, NoneOpt, body), SCall(5, LocatedPath(0, PathIdent("f")), <<>>),
            SReturn(6, IntLit(5))>>)

FnBodies ==
    { <<>>,
      <<SLet(2, PIdent("x"), IntLit(1))>>,
      <<SReturn(2, IntLit(7))>>,
      <<SReturn(2, NoneOpt)>>,
      <<SIf(2, BoolLit(TRUE), <<SLet(3, PIdent("x"), IntLit(1))>>, NoneOpt)>> }
\* the bodies in which no `return` statement can execute
BodiesWithoutReturn == {body \in FnBodies : \A k \in DOMAIN body : body[k].st # "Return"}

OtherPrograms ==
    { Chunk(<<>>),
      Chunk(<<SWhile(1, BoolLit(FALSE), <<>>), SReturn(2, IntLit(3))>>),
      Chunk(<<SWhile(1, BoolLit(TRUE), <<SBreak(2)>>), SReturn(3, IntLit(3))>>),
      Chunk(<<SCall(1, LocatedPath(0, PathIdent("g")), <<>>)>>),
      Chunk(<<SLet(1, PIdent("x"), IntLit(1)), SCall(2, LocatedPath(0, PathIdent("x")), <<>>)>>),
      Chunk(<<SLet(1, PIdent("t"), EAtom(0, AtomTuple(<<IntLit(1), BoolLit(TRUE)>>))),
              SReturn(2, Var("t"))>>),
      Chunk(<<SLet(1, PIdent("t"), EAtom(0, AtomTuple(<<IntLit(1), BoolLit(TRUE)>>))),
              SReturn(2, EBinary(0, "EqualEqual", Var("t"), Var("t")))>>),
      Chunk(<<SLet(1, PIdent("v"), EAtom(0, AtomVector(<<>>))), SReturn(2, Var("v"))>>),
      Chunk(<<SAssign(1, "None", LocatedPath(0, PathIdent("x")), Var("x"))>>),
      Chunk(<<SAssign(1, "None", LocatedPath(0, PathIdent("x")), IntLit(4)), SReturn(2, Var("x"))>>),
      Chunk(<<SFn(1, "id", <<LocatedParam(1, PIdent("a"))>>, NoneOpt, <<SReturn(2, Var("a"))>>),
              SReturn(3, ECall(0, Var("id"), <<IntLit(5)>>))>>) }

\* fn f(params, ...varargs) / return // return f(args)
ParamCall(params, varargs, args) ==
    Chunk(<<SFn(1, "f", params, varargs, <<SReturn(2, NoneOpt)>>),
            SReturn(3, ECall(0, Var("f"), args))>>)
ParamLists ==
    { <<>>,
      <<LocatedParam(1, PIdent("a"))>>,
      <<LocatedParam(1, PIdent("a")), LocatedParam(1, PIdent("b"))>>,
      <<LocatedParam(1, PTuple(<<"x", "y">>))>>,
      <<LocatedParam(1, PVector(<<"x", "y">>)), LocatedParam(1, PIdent("b"))>> }
MaxArgs == 3
ArgLists == {[k \in 1..n |-> IntLit(10 + k)] : n \in 0..MaxArgs}
ParamPrograms ==
    {ParamCall(params, varargs, args) :
        params \in ParamLists, varargs \in {NoneOpt, SomeName("rest")}, args \in ArgLists}

\* let s = 0 // for v in [10, 20, 30] / s += v // return s
SumLoop ==
    Chunk(<<SLet(1, PIdent("s"), IntLit(0)),
            SFor(2, LocatedParam(0, PIdent("v")), EAtom(0, AtomVector(<<IntLit(10), IntLit(20), IntLit(30)>>)),
                 <<SAssign(3, "Plus", LocatedPath(0, PathIdent("s")), Var("v"))>>),
            SReturn(4, Var("s"))>>)

\* return (e0, .., e(n-1)) and return [e0, .., e(n-1)], the elements a
\* literal, a sum and a nested literal
MaxElems == 2
ElemExprs ==
    {IntLit(5), EBinary(0, "Plus", IntLit(1), IntLit(2)), EAtom(0, AtomTuple(<<IntLit(7)>>))}
ElemLists == UNION {[1..n -> ElemExprs] : n \in 0..MaxElems}
LiteralProgram(atom) == Chunk(<<SReturn(1, EAtom(0, atom))>>)
LiteralPrograms ==
    {LiteralProgram(AtomTuple(exprs)) : exprs \in ElemLists}
        \cup {LiteralProgram(AtomVector(exprs)) : exprs \in ElemLists}

\* let x = 1 // if c / let x = e // return x
Shadow(cond, inner) ==
    Chunk(<<SLet(1, PIdent("x"), IntLit(1)),
            SIf(2, BoolLit(cond), <<SLet(3, PIdent("x"), inner)>>, NoneOpt),
            SReturn(4, Var("x"))>>)
ShadowPrograms ==
    {Shadow(cond, inner) :
        cond \in BOOLEAN, inner \in {IntLit(2), EBinary(0, "Plus", Var("x"), IntLit(1))}}

\* let p = <container> // p.k = 5 or p[i] = 5 // return p.k or p[i]
AssignInto(container, path, read) ==
    Chunk(<<SLet(1, PIdent("p"), EAtom(0, container)),
            SAssign(2, "None", path, IntLit(5)),
            SReturn(3, read)>>)
MapOfK == AtomMap(<<[key |-> LocatedName(0, "k"), expr |-> IntLit(1)]>>)
AssignPrograms ==
    {AssignInto(MapOfK, LocatedPath(0, PathField(LocatedPath(0, PathIdent("p")), key)), EField(0, Var("p"), key)) : key \in {"k", "j"}}
    \cup {AssignInto(MapOfK, LocatedPath(0, PathIndex(LocatedPath(0, PathIdent("p")), EAtom(0, AtomString("k")))),
                     EIndex(0, Var("p"), EAtom(0, AtomString("k"))))}
    \cup {AssignInto(seq, LocatedPath(0, PathIndex(LocatedPath(0, PathIdent("p")), IntLit(i))), EIndex(0, Var("p"), IntLit(i))) :
             seq \in {AtomVector(<<IntLit(1), IntLit(2)>>), AtomTuple(<<IntLit(1), IntLit(2)>>)},
             i \in {0, 1}}

RunPrograms ==
    {SumLoop} \cup LiteralPrograms \cup ShadowPrograms \cup AssignPrograms \cup {IfElse(cond) : cond \in CondAtoms} \cup {IfOnly(cond) : cond \in CondAtoms}
    \cup {IfLetElse(e) : e \in CondAtoms}
    \cup {FnResult(body) : body \in FnBodies} \cup {FnStatement(body) : body \in FnBodies}
    \cup OtherPrograms \cup ParamPrograms

JumpSources == {SrcNull, SrcBool(TRUE), SrcBool(FALSE), SrcInt(0), SrcInt(1), SrcRegister(0)}
\* 0: jump to 2 on the test, 1: return 1, 2: return 2
JumpClosure(bytecode) ==
    [DefaultClosure EXCEPT !.code = <<bytecode, BcReturn(SrcInt(1)), BcReturn(SrcInt(2))>>,
                           !.lines = <<1, 2, 3>>]
\* 0: r0 = fn / return src, 1: `name` = r0(), 2: return `name`
GlobalDstClosure(name, src) ==
    [DefaultClosure EXCEPT
        !.code = <<BcFn(LocRegister(0), 0), BcCall(LocGlobal(0), SrcRegister(0), 1, 0),
                   BcReturn(SrcGlobal(0))>>,
        !.lines = <<1, 2, 3>>,
        !.registers = 1,
        !.constants = <<VString(name)>>,
        !.closures = <<[DefaultClosure EXCEPT !.code = <<BcReturn(src)>>, !.lines = <<1>>]>>]
HandClosures ==
    {JumpClosure(BcJumpIf(negative, cond, 2)) : negative \in BOOLEAN, cond \in JumpSources}
    \cup {JumpClosure(BcJumpIfSome(negative, src, 2)) : negative \in BOOLEAN, src \in JumpSources}
    \cup {GlobalDstClosure(name, src) :
              name \in {"g", "print"}, src \in {SrcInt(7), SrcRegister(0), NoneOpt}}

RunArgs == {<<>>, <<VInt(1)>>}

Status(status) == running' = [running EXCEPT !.status = status]

Init ==
    /\ ValueIdle
    /\ CompilerIdle
    /\ applied = "none"
    /\ interpreter = [call_stack |-> <<>>, globals |-> NoLocals]
    /\ \/ /\ ast \in RunPrograms
          /\ compiled = NoneOpt
          /\ running = NotRunning("source")
       \/ /\ ast = NoneOpt
          /\ compiled \in HandClosures
          /\ running = NotRunning("compiled")

\* lib.rs compile::<Chunk>: the closure, unless a call on the way panicked;
\* an underflow or overflow panics in a build with overflow checks only.
\* Of the compiler that compile() used and dropped, the flags stay.
Compile ==
    /\ running.status = "source"
    /\ applied' = "compile"
    /\ \E r \in {compile(ast)} :
          /\ compiler' = [compiler EXCEPT !.underflow = r.c.underflow,
                                          !.overflow = r.c.overflow,
                                          !.panicked = r.c.panicked,
                                          !.narrowed = r.c.narrowed]
          /\ \/ /\ ~r.c.panicked
                /\ compiled' = r.closure
                /\ Status("compiled")
             \/ /\ r.c.underflow \/ r.c.overflow \/ r.c.panicked
                /\ Status("panic")
                /\ UNCHANGED compiled
    /\ UNCHANGED <<value_vars, cstatus, ret, ast, interpreter>>

\* lib.rs run: interpreter.call(&Function { closure }, args, None), and the
\* first lines of Interpreter::run
Call ==
    /\ running.status = "compiled"
    /\ applied' = "call"
    /\ \E args \in RunArgs : \E r \in call(interpreter, heap, compiled, args, NoneOpt) :
          IF r.out = "ok"
          THEN /\ interpreter' = r.vm
               /\ heap' = r.h
               /\ running' = [running EXCEPT !.status = "running",
                                             !.offset = Len(r.vm.call_stack)]
          ELSE Status("panic") /\ UNCHANGED <<interpreter, heap>>
    /\ UNCHANGED <<operands, outcome, compiler_vars, ast, compiled>>

\* std_hydra::import: set_global! inserts every name, bound to a native
\* function, into the globals the interpreter already has
StdNames == <<"print", "write", "input", "debug", "error", "iter", "next", "int", "float",
              "bool", "char", "str", "vec", "tuple", "enumerate">>
import(i) ==
    LET names == {StdNames[k] : k \in DOMAIN StdNames}
    IN [i EXCEPT !.globals =
            [name \in (DOMAIN @) \cup names |->
                IF name \in names
                THEN VFn("Native", CHOOSE k \in DOMAIN StdNames : StdNames[k] = name)
                ELSE @[name]]]

\* bin/main.rs run_args: as lib.rs run, with the standard globals imported
\* into the new interpreter
CallWithStd ==
    /\ running.status = "compiled"
    /\ applied' = "call"
    /\ \E args \in RunArgs : \E r \in call(import(interpreter), heap, compiled, args, NoneOpt) :
          IF r.out = "ok"
          THEN /\ interpreter' = r.vm
               /\ heap' = r.h
               /\ running' = [running EXCEPT !.status = "running",
                                             !.offset = Len(r.vm.call_stack)]
          ELSE Status("panic") /\ UNCHANGED <<interpreter, heap>>
    /\ UNCHANGED <<operands, outcome, compiler_vars, ast, compiled>>

\* std_hydra/std_vector.rs _reduce(vector, func) with a FnKind::Function,
\* called from the frame of a running closure.  The vector stays locked from
\* the first line to the return, so the fold walks the elements it found
\* there; the closures of the model get the elements, never the vector.
\* The accumulator starts as the first element; every further element takes
\* interpreter.call(&func, vec![acc, value], None) and a nested
\* Interpreter::run, entered two frames deep, whose result (Null for None)
\* is the next accumulator.
ReduceCaller ==
    [DefaultClosure EXCEPT !.code = <<BcCall(LocRegister(0), SrcGlobal(0), 1, 2),
                                      BcReturn(SrcRegister(0))>>,
                           !.lines = <<1, 2>>,
                           !.registers = 3,
                           !.constants = <<VString("reduce")>>]
Suspended == [CallFrame(ReduceCaller, Nulls(5), NoneOpt) EXCEPT !.idx = 1]
ReduceVectors == {<<>>, <<VInt(1)>>, <<VInt(1), VInt(2)>>, <<VInt(1), VInt(2), VInt(3)>>}
\* one turn of the `for value in values` loop: the call and the first lines
\* of the nested run; `values` are the elements from `value` on
reduce_turn(i, h, acc, values) ==
    \E r \in call(i, h, compiled, <<acc, Head(values)>>, NoneOpt) :
        IF r.out = "ok"
        THEN /\ interpreter' = r.vm
             /\ heap' = r.h
             /\ running' = [status |-> "running", offset |-> Len(r.vm.call_stack),
                            result |-> NoneOpt, fold |-> [rest |-> Tail(values)]]
        ELSE Status("panic") /\ UNCHANGED <<interpreter, heap>>
\* the fold is over: Ok(None) for the empty vector, Ok(Some(acc)) otherwise
reduce_return(option) ==
    running' = [status |-> "reduced", offset |-> 0, result |-> option, fold |-> NoFold]

\* _reduce up to its first nested run, or to its return for a vector of
\* fewer than two elements
ReduceCall ==
    /\ running.status = "compiled"
    /\ applied' = "call"
    /\ \E vector \in ReduceVectors :
          LET i == [interpreter EXCEPT !.call_stack = <<Suspended>>]
          IN IF Len(vector) >= 2 THEN reduce_turn(i, heap, vector[1], Tail(vector))
             ELSE /\ reduce_return(IF vector = <<>> THEN NoneOpt ELSE vector[1])
                  /\ interpreter' = i
                  /\ UNCHANGED heap
    /\ UNCHANGED <<operands, outcome, compiler_vars, ast, compiled>>

\* _reduce after a nested run has returned: `.unwrap_or_default()` is the
\* new accumulator, then the next turn of the loop or the return
ReduceNext ==
    /\ running.status = "returned"
    /\ IsSome(running.fold)
    /\ applied' = "reduce"
    /\ LET acc == unwrap_or_default(running.result)
       IN IF running.fold.rest # <<>>
          THEN reduce_turn(interpreter, heap, acc, running.fold.rest)
          ELSE reduce_return(acc) /\ UNCHANGED <<interpreter, heap>>
    /\ UNCHANGED <<operands, outcome, compiler_vars, ast, compiled>>

\* run's test after a step that returned `ret` with `depth` frames left:
\* the top frame at entry has returned, without the depth test
run_returns_at_any_depth(depth, offset, returned) == IsSome(returned)

\* run's test after a step: `if self.call_stack.len() < offset` and
\* `if let Some(value) = return_call`
run_returns(depth, offset, returned) == depth < offset /\ IsSome(returned)

\* one iteration of the loop of Interpreter::run
Step ==
    /\ running.status = "running"
    /\ applied' = "step"
    /\ \E r \in step(interpreter, heap) :
          /\ Len(r.h) <= MaxHeap
          /\ Len(r.vm.call_stack) <= MaxDepth
          /\ CASE r.out \in {"panic", "deadlock"} -> Status(r.out) /\ UNCHANGED <<interpreter, heap>>
               [] r.out = "err" ->
                     /\ interpreter' = r.vm
                     /\ heap' = r.h
                     /\ running' = [running EXCEPT !.status = "error", !.result = r.err]
               [] r.out = "ok" ->
                     /\ interpreter' = r.vm
                     /\ heap' = r.h
                     /\ IF run_returns(Len(r.vm.call_stack), running.offset, r.ret)
                        THEN running' = [running EXCEPT !.status = "returned",
                                                        !.result = r.ret.some]
                        ELSE IF Len(r.vm.call_stack) < running.offset - 1
                        THEN running' = [running EXCEPT !.status = "returned"]
                        ELSE UNCHANGED running
    /\ UNCHANGED <<operands, outcome, compiler_vars, ast, compiled>>

Next == Compile \/ Call \/ CallWithStd \/ ReduceCall \/ ReduceNext \/ Step
Spec == Init /\ [][Next]_vars

\* ------------------------------------------------------- compiling chunks
\* lib.rs compile::<Chunk> on chunks of up to MaxStats statements.
BaseStatements ==
    { SLet(1, PIdent("x"), IntLit(1)),
      SLet(1, PTuple(<<"a", "b">>), EAtom(0, AtomTuple(<<IntLit(1), Var("x")>>))),
      SLet(1, PIdent("t"), EAtom(0, AtomTuple(<<>>))),
      SCall(1, LocatedPath(0, PathIdent("f")), <<>>),
      SCall(1, LocatedPath(0, PathIdent("f")), <<IntLit(1), Var("x")>>),
      SSelfCall(1, LocatedPath(0, PathIdent("x")), LocatedName(0, "m"), <<>>),
      SSelfCall(1, LocatedPath(0, PathIdent("x")), LocatedName(0, "m"), <<IntLit(1), IntLit(2)>>),
      SLet(1, PIdent("r"), ESelfCall(0, Var("x"), LocatedName(0, "m"), <<IntLit(1)>>)),
      SAssign(1, "None", LocatedPath(0, PathIdent("x")), Var("x")),
      SAssign(1, "Plus", LocatedPath(0, PathIdent("x")), ECall(0, Var("f"), <<>>)),
      SReturn(1, NoneOpt),
      SIf(1, BoolLit(TRUE), <<SLet(1, PIdent("x"), IntLit(1))>>, NoneOpt),
      SIf(1, Var("x"), <<SReturn(1, IntLit(1))>>, SomeBlock(<<SReturn(1, IntLit(2))>>)),
      SIfLet(1, LocatedParam(0, PMap(<<"k">>)), EAtom(0, AtomNull), <<SBreak(1)>>, NoneOpt),
      SWhile(1, BoolLit(TRUE), <<SBreak(1), SContinue(1)>>),
      SWhileLet(1, LocatedParam(0, PIdent("y")), Var("x"), <<SContinue(1)>>),
      SFor(1, LocatedParam(0, PIdent("i")), Var("x"), <<SCall(1, LocatedPath(0, PathIdent("f")), <<Var("i")>>)>>) }
FnStatements ==
    {SFn(1, "h", <<>>, NoneOpt, <<s>>) : s \in BaseStatements}
    \cup { SFn(1, "g", <<LocatedParam(1, PIdent("a")), LocatedParam(1, PTuple(<<"b", "c">>))>>,
               SomeName("rest"), <<SReturn(1, Var("c"))>>),
           SFn(1, "g", <<LocatedParam(1, PMap(<<"k">>))>>, NoneOpt, <<>>) }
CompileStatements == BaseStatements \cup FnStatements
\* One loop per chunk.  The line of a statement tells its role: the loop is
\* on line LoopLn.loop, and the item at position k of its body uses the lines
\* 10 * k + role.
LoopLn == [loop |-> 8, brk |-> 2, cont |-> 3, inner |-> 4, inner_brk |-> 5, inner_cont |-> 6,
           other |-> 7]
LoopKinds == {"While", "WhileLet", "For"}
Loop(kind, ln, body) ==
    CASE kind = "While" -> SWhile(ln, Var("c"), body)
      [] kind = "WhileLet" -> SWhileLet(ln, LocatedParam(0, PIdent("y")), Var("x"), body)
      [] kind = "For" -> SFor(ln, LocatedParam(0, PIdent("i")), Var("x"), body)
\* a break or continue alone, in an if, in an else, in an if inside an if,
\* and in an if let
Nestings == {"plain", "if", "else", "if_if", "if_let"}
Nested(nesting, ln, jump) ==
    CASE nesting = "plain" -> jump
      [] nesting = "if" -> SIf(ln, Var("c"), <<jump>>, NoneOpt)
      [] nesting = "else" -> SIf(ln, Var("c"), <<SCall(ln, LocatedPath(0, PathIdent("f")), <<>>)>>, SomeBlock(<<jump>>))
      [] nesting = "if_if" -> SIf(ln, Var("c"), <<SIf(ln, Var("d"), <<jump>>, NoneOpt)>>, NoneOpt)
      [] nesting = "if_let" -> SIfLet(ln, LocatedParam(0, PIdent("z")), Var("x"), <<jump>>, NoneOpt)
JumpItems(base, brk, cont) ==
    {Nested(nesting, base + LoopLn.other, jump) :
        nesting \in Nestings, jump \in {SBreak(base + brk), SContinue(base + cont)}}
InnerLoops(base) ==
    {Loop(kind, base + LoopLn.inner, <<item>>) :
        kind \in LoopKinds, item \in JumpItems(base, LoopLn.inner_brk, LoopLn.inner_cont)}
LoopItems(k) ==
    JumpItems(10 * k, LoopLn.brk, LoopLn.cont) \cup InnerLoops(10 * k)
        \cup {SCall(10 * k + LoopLn.other, LocatedPath(0, PathIdent("f")), <<>>)}
LoopBodies == {<<a>> : a \in LoopItems(1)} \cup {<<a, b>> : a \in LoopItems(1), b \in LoopItems(2)}
LoopPrograms == {Chunk(<<Loop(kind, LoopLn.loop, body)>>) : kind \in LoopKinds, body \in LoopBodies}

\* calls, a tuple and a function whose argument, element or parameter
\* count does not fit a u8, and a call whose 255 argument registers take the
\* frame's counter past 255
ManyArgs == SubSeq([k \in 1..256 |-> IntLit(k)], 1, 256)
ManyParams == SubSeq([k \in 1..256 |-> LocatedParam(1, PIdent("p"))], 1, 256)
EmptyParams ==
    SubSeq([k \in 1..256 |-> LocatedParam(1, PTuple(IF k = 6 THEN <<"a">> ELSE <<>>))], 1, 256)
ManyArgsPrograms ==
    { Chunk(<<SCall(1, LocatedPath(0, PathIdent("f")), ManyArgs)>>),
      Chunk(<<SLet(1, PIdent("x"), IntLit(1)),
              SReturn(2, ECall(0, Var("f"), ManyArgs \o <<Var("x")>>))>>),
      Chunk(<<SLet(1, PIdent("x"), IntLit(1)),
              SCall(2, LocatedPath(0, PathIdent("f")), SubSeq(ManyArgs, 1, 255))>>),
      Chunk(<<SReturn(1, EAtom(0, AtomTuple(ManyArgs)))>>),
      Chunk(<<SFn(1, "g", ManyParams \o <<LocatedParam(1, PIdent("a"))>>, NoneOpt,
                  <<SReturn(2, Var("a"))>>)>>),
      Chunk(<<SFn(1, "g", EmptyParams, NoneOpt, <<SReturn(2, Var("a"))>>)>>) }
CompilePrograms ==
    {Chunk(stats) : stats \in UNION {[1..n -> CompileStatements] : n \in 1..MaxStats}}
        \cup ManyArgsPrograms

CompileInit ==
    /\ ValueIdle
    /\ CompilerIdle
    /\ applied = "none"
    /\ interpreter = [call_stack |-> <<>>, globals |-> NoLocals]
    /\ ast \in CompilePrograms
    /\ compiled = NoneOpt
    /\ running = NotRunning("source")
CompileSpec == CompileInit /\ [][Compile]_vars

\* lib.rs compile::<Chunk> on the loop programs
LoopInit ==
    /\ ValueIdle
    /\ CompilerIdle
    /\ applied = "none"
    /\ interpreter = [call_stack |-> <<>>, globals |-> NoLocals]
    /\ ast \in LoopPrograms
    /\ compiled = NoneOpt
    /\ running = NotRunning("source")
LoopSpec == LoopInit /\ [][Compile]_vars

\* ------------------------------------------------------------- claims C1-C5
Fetched == IF running.status = "running" THEN instr(interpreter) ELSE NoneOpt
Executes(op) == IsSome(Fetched) /\ Fetched.op = op /\ applied' = "step"
NextIdx == call_frame(interpreter').idx
FallThrough == call_frame(interpreter).idx + 1
Yields(chunk, value) ==
    ast = chunk => /\ running.status \notin {"panic", "error"}
                   /\ running.status = "returned" => running.result = value

\* C1: JumpIf{negate, cond, addr} sets the program counter to addr exactly
\* when the truthiness of cond differs from negate and otherwise falls
\* through; so `if cond / return 1 / else / return 2` returns 1 when cond is
\* truthy and 2 when it is not.
C1_JumpIfBranches ==
    /\ [][Executes("JumpIf") =>
            NextIdx = IF bool_from(unwrap_or_default(source(interpreter, Fetched.cond)))
                            # Fetched.negative
                      THEN Fetched.addr ELSE FallThrough]_vars
    /\ [](\A cond \in CondAtoms :
            Yields(IfElse(cond), VInt(IF bool_from(LiteralValue(cond)) THEN 1 ELSE 2)))

\* C2: JumpIfSome{negate, src, addr} sets the program counter to addr exactly
\* when (src != Null) differs from negate; so `if let x = e / return 1 / else
\* / return 2` returns 1 when e is not Null and 2 when e is Null.
C2_JumpIfSomeBranches ==
    /\ [][Executes("JumpIfSome") =>
            NextIdx = IF (unwrap_or_default(source(interpreter, Fetched.src)) # VNull)
                            # Fetched.negative
                      THEN Fetched.addr ELSE FallThrough]_vars
    /\ [](\A e \in CondAtoms :
            Yields(IfLetElse(e), VInt(IF LiteralValue(e) # VNull THEN 1 ELSE 2)))

\* C3: a call of a function whose body ends without a `return` returns Null
\* to the caller, and step() never fetches at an index past the end of the
\* running closure's code.
C3_MissingReturnYieldsNull ==
    /\ running.status = "running" => IsSome(instr(interpreter))
    /\ \A body \in BodiesWithoutReturn :
          /\ Yields(FnResult(body), VNull)
          /\ Yields(FnStatement(body), VInt(5))

RECURSIVE AllClosures(_)
\* a closure and the closures of the functions declared in it, at any depth
AllClosures(cl) == {cl} \cup UNION {AllClosures(cl.closures[k]) : k \in DOMAIN cl.closures}
CompiledClosures == IF IsSome(compiled) THEN AllClosures(compiled) ELSE {}
IsJump(bc) == bc.op \in {"Jump", "JumpIf", "JumpIfSome"}

\* C4: in every closure compiled from a chunk, nested ones included, every
\* Jump, JumpIf and JumpIfSome targets an address in [0, code.len()).
C4_JumpTargetsInCode ==
    \A cl \in CompiledClosures : \A k \in DOMAIN cl.code :
        IsJump(cl.code[k]) => cl.code[k].addr \in 0..(Len(cl.code) - 1)

\* the Source and Location operands of an instruction
OperandsOf(bc) ==
    CASE bc.op = "JumpIf" -> {bc.cond}
      [] bc.op = "JumpIfSome" -> {bc.src}
      [] bc.op = "Call" -> {bc.func, bc.dst}
      [] bc.op = "Return" -> {bc.src}
      [] bc.op = "Move" -> {bc.dst, bc.src}
      [] bc.op = "Field" -> {bc.dst, bc.head, bc.field}
      [] bc.op = "SetField" -> {bc.head, bc.field, bc.src}
      [] bc.op \in {"Vector", "Tuple", "Map", "Fn"} -> {bc.dst}
      [] bc.op = "Binary" -> {bc.dst, bc.left, bc.right}
      [] bc.op = "Unary" -> {bc.dst, bc.right}
      [] OTHER -> {}
IsRegister(operand) == "reg" \in DOMAIN operand
\* the registers an instruction names as Source::Register or Location::Register
NamedRegisters(bc) == {operand.reg : operand \in {o \in OperandsOf(bc) : IsRegister(o)}}
HasRange(bc) == bc.op \in {"Call", "Vector", "Tuple"}
\* the registers start..start+amount of a Call, Vector or Tuple
RangeRegisters(bc) == IF HasRange(bc) THEN bc.start..(bc.start + bc.amount - 1) ELSE {}
StartRegister(bc) == IF HasRange(bc) THEN {bc.start} ELSE {}

HeaderLocals(stat) == Last(frame(fn_header(NewCompiler, stat)).scopes).locals
\* the register holding parameter k (1-based): the local an identifier
\* became, or the register a destructuring pattern reads its fields from
ParamRegister(stat, k) ==
    IF stat.params[k].param.pk = "Ident"
    THEN HeaderLocals(stat)[stat.params[k].param.name]
    ELSE k - 1
VarargsRegister(stat) == HeaderLocals(stat)[stat.varargs.name]
\* the chunk of a parameter program is about to call f
CallsParamFn ==
    /\ IsSome(ast) /\ ast \in ParamPrograms
    /\ Len(interpreter.call_stack) = 1
    /\ Executes("Call")
\* the arguments the fetched Call hands over: its range is within the
\* registers, so there is one reading of it
CallArgs ==
    The({read.values : read \in read_registers(interpreter, Fetched.start, Fetched.amount)})

\* C13: a call with k arguments of a function with n parameters leaves, in
\* the new frame, parameter i's register holding args[i] for i < min(n, k)
\* and Null for k <= i < n, and the register of a declared varargs name
\* holding a fresh vector of args[n..]; for n = 0 and for destructuring
\* parameters too.
C13_CallBindsParameters ==
    [][CallsParamFn =>
        LET stat == ast.stats[1]
            n == Len(stat.params)
            args == CallArgs
            new == call_frame(interpreter')
        IN /\ running'.status = "running"
           /\ Len(interpreter'.call_stack) = 2
           /\ \A k \in 1..n :
                 new.stack[ParamRegister(stat, k) + 1] = IF k <= Len(args) THEN args[k] ELSE VNull
           /\ IsSome(stat.varargs) =>
                 LET rest == new.stack[VarargsRegister(stat) + 1]
                 IN /\ rest.t = "Vector"
                    /\ rest.p \notin DOMAIN heap
                    /\ heap'[rest.p] = VectorCell(Drop(args, n))]_vars

\* -------------------------------------------------------------- claim C14
Depth == Len(interpreter.call_stack)
\* the value of the fetched Return's source, Null when it has none
ReturnValue ==
    source(with_call_frame(interpreter, [call_frame(interpreter) EXCEPT !.idx = @ + 1]),
           IF IsSome(Fetched.src) THEN Fetched.src ELSE SrcNull)

\* C14: run() entered at call-stack depth d = running.offset keeps stepping
\* until the frame on top at entry is popped.  A Return executed deeper than
\* d leaves run() running; the Return of the entry frame ends run() with the
\* value of its source (Null without a source) and d - 1 frames left; and
\* run() returns on no other step.
C14_RunEndsWithEntryFrame ==
    /\ [][(Executes("Return") /\ Depth > running.offset)
            => running'.status = "running"]_vars
    /\ [][(Executes("Return") /\ Depth = running.offset)
            => /\ running'.status = "returned"
               /\ running'.result = ReturnValue
               /\ Len(interpreter'.call_stack) = running.offset - 1]_vars
    /\ [][(running.status = "running" /\ running'.status = "returned")
            => (Executes("Return") /\ Depth = running.offset)]_vars

\* a nested call has returned 7 into the entry frame of a run() entered two
\* frames deep, and that frame's own Return has ended run() with the 7
C14_Witness ==
    /\ ast = FnResult(<<SReturn(2, IntLit(7))>>)
    /\ running.offset = 2
    /\ running.status = "returned"
    /\ running.result = VInt(7)
    /\ Len(interpreter.call_stack) = 1

\* -------------------------------------------------------------- claim C15
\* the arguments of the self-call a statement makes, as a statement or as
\* the expression of a let
IsSelfCall(stat) ==
    \/ stat.st = "SelfCall"
    \/ stat.st = "LetBinding" /\ stat.expr.ek = "SelfCall"
SelfCallArgs(stat) == IF stat.st = "SelfCall" THEN stat.args ELSE stat.expr.args
\* the chunk starts with a self-call, whose Field instruction is emitted first
StartsWithSelfCall ==
    /\ IsSome(ast) /\ IsSome(compiled)
    /\ ast.stats # <<>> /\ IsSelfCall(ast.stats[1])
FirstCall(code) == CHOOSE at \in DOMAIN code :
                      code[at].op = "Call" /\ \A k \in 1..(at - 1) : code[k].op # "Call"
MovedBefore(code, at, reg, src) ==
    \E k \in 1..(at - 1) : code[k] = BcMove(LocRegister(reg), src)

\* C15: the Call emitted for `h:f(a1, .., an)` passes n + 1 arguments: its
\* range starts at the register holding the copy of the head h, and the
\* registers after it hold a1..an in order.
C15_SelfCallPassesHead ==
    StartsWithSelfCall =>
        LET code == compiled.code
            at == FirstCall(code)
            args == SelfCallArgs(ast.stats[1])
        IN /\ code[1].op = "Field"
           /\ code[at].func = SrcRegister(code[1].dst.reg)
           /\ code[at].amount = Len(args) + 1
           /\ MovedBefore(code, at, code[at].start, code[1].head)
           /\ \A k \in DOMAIN args :
                 MovedBefore(code, at, code[at].start + k, SrcInt(args[k].atom.i))

\* -------------------------------------------------------------- claim C18
\* C18: a `for` loop calls iter once and next once per iteration, runs its
\* body for every value that is not Null and leaves the loop at the first
\* Null; the loop over [10, 20, 30] that adds the values up terminates and
\* the chunk returns 60.
C18_ForLoopSums == Yields(SumLoop, VInt(60))

\* ------------------------------------------------------------ claims C8-C10
IsTuple(v) == v.t = "Tuple"
TupleOf(v) == heap[v.p].e
\* same length and pairwise equal, element by element
PairwiseEqual(l, r) ==
    /\ Len(TupleOf(l)) = Len(TupleOf(r))
    /\ \A k \in 1..Len(TupleOf(l)) : eq(heap, TupleOf(l)[k], TupleOf(r)[k], {}) = "true"

DistinctHandles(l, r) == ~(IsTuple(l) /\ IsTuple(r) /\ l.p = r.p)

\* C8: equality of two tuples (held under different handles) returns true
\* exactly when they have the same length and are pairwise equal; tuples of
\* different lengths are never equal, in either operand order.
C8_TupleEqIsLengthAndPairwise ==
    (/\ applied = "eq" /\ IsTuple(operands.l) /\ IsTuple(operands.r)
     /\ DistinctHandles(operands.l, operands.r))
        => /\ outcome.st = "ok"
           /\ outcome.val = VBool(PairwiseEqual(operands.l, operands.r))

\* C9: == and != on any pair of values never fail and yield the Bool of
\* (the negation of) the value equality of the operands.
C9_EqNeYieldBool ==
    (applied \in {"EE", "NE"} /\ DistinctHandles(operands.l, operands.r))
        => /\ outcome.st = "ok"
           /\ outcome.val.t = "Bool"
           /\ outcome.val = VBool((eq(heap, operands.l, operands.r, {}) = "true") = (applied = "EE"))

\* the truthiness table as the claim states it, the Char row left out
ClaimedTruthy(v) ==
    CASE v.t = "Null" -> FALSE
      [] v.t = "Int" -> v.i = 0
      [] v.t = "Float" -> v.num = 0
      [] v.t = "Bool" -> v.b
      [] v.t = "String" -> v.s # ""
      [] OTHER -> TRUE

\* C10 as stated: Null -> false, numbers -> true iff zero, Bool -> itself,
\* the char NUL -> false, String -> non-empty, containers and functions -> true.
C10_TruthinessAsStated ==
    (applied = "bool")
        => /\ outcome.st = "ok"
           /\ operands.l.t # "Char" => outcome.val = VBool(ClaimedTruthy(operands.l))
           /\ operands.l = VChar(0) => outcome.val = VBool(FALSE)

\* C10 amended: as stated, except that a Char converts to true exactly when
\* its low byte is zero, so the char NUL converts to true.
C10_Truthiness ==
    (applied = "bool")
        => /\ outcome.st = "ok"
           /\ operands.l.t # "Char" => outcome.val = VBool(ClaimedTruthy(operands.l))
           /\ operands.l.t = "Char" => outcome.val = VBool(operands.l.ch % 256 = 0)

C10_Witness ==
    /\ applied = "bool"
    /\ operands.l = VChar(0)
    /\ outcome.val = VBool(TRUE)

\* ---------------------------------------------------------- claims C11-C12
IsIndexed(v) == v.t \in {"Vector", "Tuple"}
IsAscii(v) == v.t = "String" /\ \A k \in 1..Len(utf8(v.s)) : utf8(v.s)[k].lead
\* the elements of a head, as the heap held them before the operation
ElementsOf(v) ==
    IF v.t = "String" THEN [k \in 1..Len(utf8(v.s)) |-> VChar(utf8(v.s)[k].ch)]
    ELSE FieldHeap[v.p].e
\* the element Int index i addresses counting from either end, or Null
Addressed(elems, i) ==
    IF 0 <= i /\ i < Len(elems) THEN elems[i + 1]
    ELSE IF 0 - Len(elems) <= i /\ i < 0 THEN elems[Len(elems) + i + 1]
    ELSE VNull
InRange(elems, i) == 0 - Len(elems) <= i /\ i < Len(elems)

\* C11: reading Int field i of a Vector, Tuple or String of length len
\* returns the element at i (0 <= i < len) or at len + i (-len <= i < 0) and
\* Null for every other i; the read always returns and leaves the container
\* as it was.
C11_ReadIndexTotal ==
    (/\ applied = "field"
     /\ IsIndexed(operands.l) \/ IsAscii(operands.l)
     /\ operands.r.t = "Int")
        => /\ outcome.st = "ok"
           /\ outcome.val = Addressed(ElementsOf(operands.l), operands.r.i)
           /\ heap = FieldHeap

\* C12: writing Int field i of a Vector or Tuple of length len replaces
\* exactly the addressed element when -len <= i < len, and fails with
\* IndexOutOfRange{index: i, len} leaving the container unchanged for every
\* other i; writing a field of a String always fails and changes nothing.
C12_WriteIndexChecked ==
    (applied = "set_field")
        => /\ (IsIndexed(operands.l) /\ operands.r.t = "Int")
                => LET elems == ElementsOf(operands.l)
                       i == operands.r.i
                       at == IF i < 0 THEN Len(elems) + i + 1 ELSE i + 1
                   IN IF InRange(elems, i)
                      THEN /\ outcome.st = "ok"
                           /\ heap = [FieldHeap EXCEPT ![operands.l.p].e[at] = operands.src]
                      ELSE /\ outcome.st = "err"
                           /\ outcome.err = IndexOutOfRange(i, Len(elems))
                           /\ heap = FieldHeap
           /\ operands.l.t = "String" => (outcome.st = "err" /\ heap = FieldHeap)

\* ---------------------------------------------------------- claims C16-C17
\* the operators of the arithmetic rows of the operator table
Arithmetic == {"Add", "Sub", "Mul", "Div", "Mod", "Pow"}
SameLength(l, r) == Len(ValueHeap[l.p].e) = Len(ValueHeap[r.p].e)
\* what the operator gives for the k-th elements of two tuples
ElementWise(op, l, r, k) == binary(ValueHeap, op, ValueHeap[l.p].e[k], ValueHeap[r.p].e[k], {})
\* v is the value x, or a tuple holding what the tuple x holds
SameValue(h, v, x) ==
    IF x.t = "Tuple" THEN v.t = "Tuple" /\ h[v.p].e = h[x.p].e ELSE v = x

\* C16: an arithmetic operator applied to two tuples of the same length
\* returns a new tuple, under a handle of its own, whose k-th element is the
\* operator applied to the k-th elements; the operands are unchanged, and an
\* illegal element pair fails the operation with IllegalBinaryOperation.
C16_TupleArithmeticElementWise ==
    (/\ applied \in Arithmetic
     /\ IsTuple(operands.l) /\ IsTuple(operands.r)
     /\ SameLength(operands.l, operands.r))
        => LET n == Len(ValueHeap[operands.l.p].e)
               legal == \A k \in 1..n : ElementWise(applied, operands.l, operands.r, k).st = "ok"
           IN /\ SubSeq(heap, 1, Len(ValueHeap)) = ValueHeap
              /\ IF legal
                 THEN /\ outcome.st = "ok"
                      /\ outcome.val.t = "Tuple"
                      /\ outcome.val.p \notin {operands.l.p, operands.r.p}
                      /\ outcome.val.p \notin DOMAIN ValueHeap
                      /\ Len(heap[outcome.val.p].e) = n
                      /\ \A k \in 1..n :
                            LET x == ElementWise(applied, operands.l, operands.r, k)
                            IN SameValue(x.h, heap[outcome.val.p].e[k], x.val)
                 ELSE /\ outcome.st = "err"
                      /\ outcome.err.kind = "IllegalBinaryOperation"

\* C17: Int ^ Int yields Int 0 for a negative exponent and the base raised
\* to the exponent otherwise.
C17_IntPow ==
    (applied = "Pow" /\ operands.l.t = "Int" /\ operands.r.t = "Int")
        => /\ outcome.st = "ok"
           /\ outcome.val = VInt(IF operands.r.i < 0 THEN 0
                                 ELSE int_pow(operands.l.i, operands.r.i))

\* ------------------------------------------------------------------ parser
\* scan/lexer.rs Line and scan/parser.rs Parser: the parser owns the lines
\* still to be read and removes tokens and lines from the front.  Tokens are
\* those the parser matches on: the keywords Let, Return and Fn, the literals
\* Null, Int, Float, Bool, Char and String, Ident, the assignment tokens of
\* AssignOperator::token, ParanLeft, ParanRight, BracketLeft, BracketRight,
\* BraceLeft, BraceRight, Comma, Dot, Colon, DotDotDot, and the operator
\* tokens of BinaryOperator::token and UnaryOperator::token.
Tok(kind) == [tk |-> kind]
TIdent(name) == [tk |-> "Ident", name |-> name]
TInt(n) == [tk |-> "Int", i |-> n]
TFloat(halves) == [tk |-> "Float", num |-> halves]
TBool(b) == [tk |-> "Bool", b |-> b]
TChar(code) == [tk |-> "Char", ch |-> code]
TString(s) == [tk |-> "String", s |-> s]
Line(l, ind, toks) == [ln |-> l, indent |-> ind, tokens |-> toks]

ParseErr(kind) == [e |-> kind]
UnexpectedToken(token) == [e |-> "UnexpectedToken", got |-> token]
Expected(token, current) == [e |-> "Expected", expected |-> token, got |-> current]

\* Result<Located<N>, Located<ParseError>> together with the parser it leaves
POk(p, node) == [ok |-> TRUE, p |-> p, v |-> node]
PErr(p, err) == [ok |-> FALSE, p |-> p, v |-> err]
\* the `?` operator
AndThen(r, F(_, _)) == CHOOSE y \in {IF x.ok THEN F(x.p, x.v) ELSE x : x \in {r}} : TRUE

parser_get(p) ==
    IF p = <<>> \/ p[1].tokens = <<>> THEN [p |-> p, tok |-> NoneOpt]
    ELSE [p |-> [p EXCEPT ![1].tokens = Tail(@)], tok |-> Head(p[1].tokens)]
advance_line(p) == IF p # <<>> THEN Tail(p) ELSE p
eol(p) == IF p = <<>> THEN FALSE ELSE p[1].tokens = <<>>
eof(p) == p = <<>>
peek(p) == IF p = <<>> \/ p[1].tokens = <<>> THEN NoneOpt ELSE Head(p[1].tokens)
peek_is(p, kind) == IF IsSome(peek(p)) THEN peek(p).tk = kind ELSE FALSE
parser_ln(p) == IF p = <<>> THEN 0 ELSE p[1].ln
parser_indent(p) == IF p = <<>> THEN 0 ELSE p[1].indent
expect_eol(p) ==
    Bind(parser_get(p), LAMBDA g :
        IF IsSome(g.tok) THEN PErr(g.p, ParseErr("ExpectedNewLine")) ELSE POk(g.p, NoneOpt))
expect_any(p) ==
    Bind(parser_get(p), LAMBDA g :
        IF IsSome(g.tok) THEN POk(g.p, g.tok) ELSE PErr(g.p, ParseErr("UnexpectedEOL")))
expect(p, kind) ==
    Bind(parser_get(p), LAMBDA g :
        IF ~IsSome(g.tok) THEN PErr(g.p, ParseErr("UnexpectedEOL"))
        ELSE IF g.tok.tk # kind THEN PErr(g.p, Expected(Tok(kind), g.tok))
        ELSE POk(g.p, g.tok))

\* Parameter::parse_ident
parse_ident(p) ==
    Bind(parser_get(p), LAMBDA g :
        IF ~IsSome(g.tok) THEN PErr(g.p, ParseErr("UnexpectedEOL"))
        ELSE IF g.tok.tk = "Ident" THEN POk(g.p, g.tok.name)
        ELSE PErr(g.p, Expected(TIdent(""), g.tok)))

\* the names of a pattern after the first, up to the closing token
RECURSIVE parse_names(_, _, _)
parse_names(p, close, names) ==
    IF ~IsSome(peek(p)) \/ peek_is(p, close) THEN POk(p, names)
    ELSE AndThen(expect(p, "Comma"), LAMBDA q, comma :
            IF peek_is(q, close) THEN POk(q, names)
            ELSE AndThen(parse_ident(q), LAMBDA q2, name :
                    parse_names(q2, close, Append(names, name))))
\* one of the three bracketed arms of Parameter::parse: the names between
\* `open` and `close`
parse_pattern(p, open, close) ==
    AndThen(expect(p, open), LAMBDA q, opened :
    AndThen(parse_ident(q), LAMBDA q2, name :
    AndThen(parse_names(q2, close, <<name>>), LAMBDA q3, names :
    AndThen(expect(q3, close), LAMBDA q4, closed : POk(q4, names)))))
\* Parameter::parse
parse_parameter(p) ==
    CASE peek_is(p, "ParanLeft") ->
            AndThen(parse_pattern(p, "ParanLeft", "ParanRight"), LAMBDA q, names :
                POk(q, PTuple(names)))
      [] peek_is(p, "BracketLeft") ->
            AndThen(parse_pattern(p, "BracketLeft", "BracketRight"), LAMBDA q, names :
                POk(q, PVector(names)))
      [] peek_is(p, "BraceLeft") ->
            AndThen(parse_pattern(p, "BraceLeft", "BraceRight"), LAMBDA q, names :
                POk(q, PMap(names)))
      [] OTHER -> AndThen(parse_ident(p), LAMBDA q, name : POk(q, PIdent(name)))

RECURSIVE parse_expression(_)
\* the loop of Path::parse: `.field` and `[index]` after the head
RECURSIVE path_loop(_, _)
path_loop(p, head) ==
    CASE peek_is(p, "Dot") ->
            AndThen(parse_ident(parser_get(p).p), LAMBDA q, field :
                path_loop(q, LocatedPath(head.ln, PathField(head, field))))
      [] peek_is(p, "BracketLeft") ->
            AndThen(parse_expression(parser_get(p).p), LAMBDA q, index :
            AndThen(expect(q, "BracketRight"), LAMBDA q2, close :
                path_loop(q2, LocatedPath(head.ln, PathIndex(head, index)))))
      [] OTHER -> POk(p, head)
\* Path::parse
parse_path(p) ==
    AndThen(parse_ident(p), LAMBDA q, name :
        path_loop(q, LocatedPath(parser_ln(p), PathIdent(name))))

\* the argument loop of a call, up to the closing parenthesis
RECURSIVE parse_args(_, _)
parse_args(p, args) ==
    IF ~IsSome(peek(p)) \/ peek_is(p, "ParanRight") THEN POk(p, args)
    ELSE AndThen(parse_expression(p), LAMBDA q, expr :
            IF peek_is(q, "ParanRight") THEN POk(q, Append(args, expr))
            ELSE AndThen(expect(q, "Comma"), LAMBDA q2, comma :
                    parse_args(q2, Append(args, expr))))
\* the elements of a tuple or vector atom after those in `exprs`, up to the
\* closing token
RECURSIVE parse_exprs(_, _, _)
parse_exprs(p, close, exprs) ==
    IF ~IsSome(peek(p)) \/ peek_is(p, close) THEN POk(p, exprs)
    ELSE AndThen(expect(p, "Comma"), LAMBDA q, comma :
            IF peek_is(q, close) THEN POk(q, exprs)
            ELSE AndThen(parse_expression(q), LAMBDA q2, expr :
                    parse_exprs(q2, close, Append(exprs, expr))))
\* the ParanLeft arm of Atom::parse: (e), (e,) or (e, e, ..)
parse_paran(p) ==
    AndThen(parse_expression(p), LAMBDA q, expr :
        IF peek_is(q, "Comma")
        THEN AndThen(expect(q, "Comma"), LAMBDA q2, comma :
                IF peek_is(q2, "ParanRight")
                THEN AndThen(expect(q2, "ParanRight"), LAMBDA q3, close :
                        POk(q3, AtomTuple(<<expr>>)))
                ELSE AndThen(parse_expression(q2), LAMBDA q3, second :
                     AndThen(parse_exprs(q3, "ParanRight", <<expr, second>>), LAMBDA q4, exprs :
                     AndThen(expect(q4, "ParanRight"), LAMBDA q5, close :
                        POk(q5, AtomTuple(exprs))))))
        ELSE AndThen(expect(q, "ParanRight"), LAMBDA q2, close :
                POk(q2, AtomExpression(expr))))
\* the BracketLeft arm of Atom::parse: [] or [e, ..]
parse_vector(p) ==
    IF peek_is(p, "BracketRight")
    THEN AndThen(expect(p, "BracketRight"), LAMBDA q, close : POk(q, AtomVector(<<>>)))
    ELSE AndThen(parse_expression(p), LAMBDA q, expr :
         AndThen(parse_exprs(q, "BracketRight", <<expr>>), LAMBDA q2, exprs :
         AndThen(expect(q2, "BracketRight"), LAMBDA q3, close :
            POk(q3, AtomVector(exprs)))))
\* `field = expr` in a map atom
parse_pair(p) ==
    AndThen(parse_ident(p), LAMBDA q, field :
    AndThen(expect(q, "Equal"), LAMBDA q2, equal :
    AndThen(parse_expression(q2), LAMBDA q3, expr :
        POk(q3, [key |-> LocatedName(parser_ln(p), field), expr |-> expr]))))
\* the pairs of a map atom after the first, up to the closing brace
RECURSIVE parse_pairs(_, _)
parse_pairs(p, pairs) ==
    IF ~IsSome(peek(p)) \/ peek_is(p, "BraceRight") THEN POk(p, pairs)
    ELSE AndThen(expect(p, "Comma"), LAMBDA q, comma :
            IF peek_is(q, "BraceRight") THEN POk(q, pairs)
            ELSE AndThen(parse_pair(q), LAMBDA q2, pair :
                    parse_pairs(q2, Append(pairs, pair))))
\* the BraceLeft arm of Atom::parse: {} or {field = e, ..}
parse_map(p) ==
    IF peek_is(p, "BraceRight")
    THEN AndThen(expect(p, "BraceRight"), LAMBDA q, close : POk(q, AtomMap(<<>>)))
    ELSE AndThen(parse_pair(p), LAMBDA q, pair :
         AndThen(parse_pairs(q, <<pair>>), LAMBDA q2, pairs :
         AndThen(expect(q2, "BraceRight"), LAMBDA q3, close :
            POk(q3, AtomMap(pairs)))))
\* Atom::parse
parse_atom(p) ==
    IF peek_is(p, "Ident")
    THEN AndThen(parse_path(p), LAMBDA q, path : POk(q, AtomPath(path.path)))
    ELSE Bind(parser_get(p), LAMBDA g :
        IF ~IsSome(g.tok) THEN PErr(g.p, ParseErr("UnexpectedEOL"))
        ELSE CASE g.tok.tk = "Null" -> POk(g.p, AtomNull)
               [] g.tok.tk = "Int" -> POk(g.p, AtomInt(g.tok.i))
               [] g.tok.tk = "Float" -> POk(g.p, AtomFloat(g.tok.num))
               [] g.tok.tk = "Bool" -> POk(g.p, AtomBool(g.tok.b))
               [] g.tok.tk = "Char" -> POk(g.p, AtomChar(g.tok.ch))
               [] g.tok.tk = "String" -> POk(g.p, AtomString(g.tok.s))
               [] g.tok.tk = "ParanLeft" -> parse_paran(g.p)
               [] g.tok.tk = "BracketLeft" -> parse_vector(g.p)
               [] g.tok.tk = "BraceLeft" -> parse_map(g.p)
               [] OTHER -> PErr(g.p, UnexpectedToken(g.tok)))
\* `(args)`: the argument loop and the closing parenthesis
parse_call_args(p) ==
    AndThen(parse_args(p, <<>>), LAMBDA q, args :
    AndThen(expect(q, "ParanRight"), LAMBDA q2, close : POk(q2, args)))
\* `:field(args)` from the field on
parse_self_call(p) ==
    AndThen(parse_ident(p), LAMBDA q, field :
    AndThen(expect(q, "ParanLeft"), LAMBDA q2, open :
    AndThen(parse_call_args(q2), LAMBDA q3, args :
        POk(q3, [field |-> LocatedName(parser_ln(p), field), args |-> args]))))
\* the loop of Expression::call
RECURSIVE parse_call(_, _)
parse_call(p, head) ==
    CASE peek_is(p, "ParanLeft") ->
            AndThen(parse_call_args(parser_get(p).p), LAMBDA q, args :
                parse_call(q, ECall(head.ln, head, args)))
      [] peek_is(p, "Colon") ->
            AndThen(parse_self_call(parser_get(p).p), LAMBDA q, sc :
                parse_call(q, ESelfCall(head.ln, head, sc.field, sc.args)))
      [] OTHER -> POk(p, head)
\* Expression::call
call_expression(p) ==
    AndThen(parse_atom(p), LAMBDA q, atom : parse_call(q, EAtom(parser_ln(p), atom)))

\* BinaryOperator::LAYERS with every layer taken as one
OneLayer ==
    << {"And", "Or", "EqualEqual", "ExclamationEqual", "Greater", "Less",
        "GreaterEqual", "LessEqual", "Is", "In", "Plus", "Minus", "Star",
        "Slash", "Percent", "Exponent", "As"} >>
\* BinaryOperator::LAYERS, from the loosest to the tightest
LAYERS ==
    << {"And", "Or"},
       {"EqualEqual", "ExclamationEqual", "Greater", "Less", "GreaterEqual",
        "LessEqual", "Is", "In"},
       {"Plus", "Minus"},
       {"Star", "Slash", "Percent"},
       {"Exponent"},
       {"As"} >>
\* UnaryOperator::LAYERS
UnaryLayers == << {"Not"}, {"Minus"} >>
\* BinaryOperator::layer(layer) / UnaryOperator::layer(layer) is Some
has_layer(layers, layer) == layer + 1 \in DOMAIN layers
\* the next token is an operator of one of `ops`
peek_in(p, ops) == IF IsSome(peek(p)) THEN peek(p).tk \in ops ELSE FALSE

\* Expression::unary
RECURSIVE unary(_, _)
unary(p, layer) ==
    IF ~has_layer(UnaryLayers, layer) THEN call_expression(p)
    ELSE IF peek_in(p, UnaryLayers[layer + 1])
    THEN AndThen(expect_any(p), LAMBDA q, token :
         AndThen(unary(q, layer), LAMBDA q2, right :
            POk(q2, EUnary(parser_ln(p), token.tk, right))))
    ELSE unary(p, layer + 1)
\* Expression::binary, and its loop over the operators of one layer
RECURSIVE parse_binary(_, _)
RECURSIVE binary_loop(_, _, _)
binary_loop(p, layer, left) ==
    IF peek_in(p, LAYERS[layer + 1])
    THEN AndThen(expect_any(p), LAMBDA q, token :
         AndThen(parse_binary(q, layer + 1), LAMBDA q2, right :
            binary_loop(q2, layer, EBinary(left.ln, token.tk, left, right))))
    ELSE POk(p, left)
\* `let mut left = Self::binary(parser, layer + 1)?;` with the `?` written
\* out, then the operator loop
parse_binary(p, layer) ==
    IF ~has_layer(LAYERS, layer) THEN unary(p, 0)
    ELSE CHOOSE y \in {IF left.ok THEN binary_loop(left.p, layer, left.v) ELSE left :
                        left \in {parse_binary(p, layer + 1)}} : TRUE
\* Expression::parse
parse_expression(p) == parse_binary(p, 0)

\* expect_eol()?; advance_line(); Ok(node)
end_of_statement(p, node) ==
    AndThen(expect_eol(p), LAMBDA q, nothing : POk(advance_line(q), node))
\* the same, for a node located at the line the parser stands on afterwards
end_of_statement_at(p, Node(_)) ==
    AndThen(expect_eol(p), LAMBDA q, nothing :
        POk(advance_line(q), Node(parser_ln(advance_line(q)))))

\* the parameter loop of a `fn` header, up to the closing parenthesis
RECURSIVE parse_fn_params(_, _)
parse_fn_params(p, params) ==
    IF ~IsSome(peek(p)) \/ peek_is(p, "ParanRight")
    THEN POk(p, [params |-> params, varargs |-> NoneOpt])
    ELSE IF peek_is(p, "DotDotDot")
    THEN AndThen(expect_any(p), LAMBDA q, dots :
         AndThen(parse_ident(q), LAMBDA q2, name :
            POk(q2, [params |-> params, varargs |-> SomeName(name)])))
    ELSE AndThen(parse_parameter(p), LAMBDA q, param :
            IF peek_is(q, "ParanRight")
            THEN POk(q, [params |-> Append(params, LocatedParam(parser_ln(q), param)),
                         varargs |-> NoneOpt])
            ELSE AndThen(expect(q, "Comma"), LAMBDA q2, comma :
                    parse_fn_params(q2, Append(params, LocatedParam(parser_ln(q), param)))))

\* the `fn` arm of Statement::parse from the name to the closing parenthesis
parse_fn_header(p) ==
    AndThen(parse_ident(p), LAMBDA q, name :
    AndThen(expect(q, "ParanLeft"), LAMBDA q2, open :
    AndThen(parse_fn_params(q2, <<>>), LAMBDA q3, header :
    AndThen(expect(q3, "ParanRight"), LAMBDA q4, close :
        POk(q4, [name |-> name, params |-> header.params, varargs |-> header.varargs])))))

RECURSIVE parse_statement(_)
RECURSIVE parse_block_stats(_, _, _)
\* the loop of Block::parse
parse_block_stats(p, base_indent, stats) ==
    IF parser_indent(p) >= base_indent
    THEN AndThen(parse_statement(p), LAMBDA q, stat :
            parse_block_stats(q, base_indent, Append(stats, stat)))
    ELSE POk(p, stats)
\* Block::parse with the block's lines compared to the header's indent
parse_block_above_parent(p) ==
    AndThen(expect_eol(p), LAMBDA q, nothing :
        IF parser_indent(p) >= parser_indent(advance_line(q))
        THEN PErr(advance_line(q), ParseErr("ExpectedIndentedBlock"))
        ELSE parse_block_stats(advance_line(q), parser_indent(p) + 1, <<>>))
\* Block::parse
parse_block(p) ==
    AndThen(expect_eol(p), LAMBDA q, nothing :
        IF parser_indent(p) >= parser_indent(advance_line(q))
        THEN PErr(advance_line(q), ParseErr("ExpectedIndentedBlock"))
        ELSE parse_block_stats(advance_line(q), parser_indent(advance_line(q)), <<>>))

\* AssignOperator::token: the tokens that are Some, and their operators
AssignTokens ==
    {"Equal", "PlusEqual", "MinusEqual", "StarEqual", "SlashEqual", "PercentEqual",
     "ExponentEqual"}
assign_operator(kind) ==
    CASE kind = "Equal" -> "None"
      [] kind = "PlusEqual" -> "Plus"
      [] kind = "MinusEqual" -> "Minus"
      [] kind = "StarEqual" -> "Star"
      [] kind = "SlashEqual" -> "Slash"
      [] kind = "PercentEqual" -> "Percent"
      [] kind = "ExponentEqual" -> "Exponent"

\* Statement::parse
parse_statement(p) ==
    IF peek_is(p, "Ident")
    THEN AndThen(parse_path(p), LAMBDA q, path :
         AndThen(expect_any(q), LAMBDA q2, token :
            CASE token.tk \in AssignTokens ->
                    AndThen(parse_expression(q2), LAMBDA q3, expr :
                        end_of_statement(q3, SAssign(parser_ln(p), assign_operator(token.tk),
                                                     path, expr)))
              [] token.tk = "ParanLeft" ->
                    AndThen(parse_call_args(q2), LAMBDA q3, args :
                        end_of_statement(q3, SCall(parser_ln(p), path, args)))
              [] token.tk = "Colon" ->
                    AndThen(parse_self_call(q2), LAMBDA q3, sc :
                        end_of_statement(q3, SSelfCall(parser_ln(p), path, sc.field,
                                                       sc.args)))
              [] OTHER -> PErr(q2, UnexpectedToken(token))))
    ELSE AndThen(expect_any(p), LAMBDA q, token :
        CASE token.tk = "Let" ->
                AndThen(parse_parameter(q), LAMBDA q2, param :
                AndThen(expect(q2, "Equal"), LAMBDA q3, equal :
                AndThen(parse_expression(q3), LAMBDA q4, expr :
                    end_of_statement_at(q4, LAMBDA l : SLet(l, param, expr)))))
          [] token.tk = "Return" ->
                IF eol(q) THEN end_of_statement_at(q, LAMBDA l : SReturn(l, NoneOpt))
                ELSE AndThen(parse_expression(q), LAMBDA q2, expr :
                        end_of_statement_at(q2, LAMBDA l : SReturn(l, expr)))
          [] token.tk = "Fn" ->
                AndThen(parse_fn_header(q), LAMBDA q2, header :
                AndThen(parse_block(q2), LAMBDA q3, body :
                    end_of_statement(q3, SFn(parser_ln(p), header.name, header.params,
                                             header.varargs, body))))
          [] OTHER -> PErr(q, UnexpectedToken(token)))

\* Chunk::parse
RECURSIVE parse_chunk(_, _)
parse_chunk(p, stats) ==
    IF p # <<>>
    THEN AndThen(parse_statement(p), LAMBDA q, stat : parse_chunk(q, Append(stats, stat)))
    ELSE POk(p, stats)

\* --------------------------------------------------------- parsing sources
\* lib.rs parse::<N>: the lines of a source text, as Lexer::lex numbers them
\* (from 0), are handed to N::parse.  Every text of at most MaxLines lines is
\* taken whose lines are blank or one of three statements' tokens, at an
\* indent of 0..MaxIndent.
MaxLines == 3
MaxIndent == 2
\* return f(1)
ReturnLine == <<Tok("Return"), TIdent("f"), Tok("ParanLeft"), TInt(1), Tok("ParanRight")>>
\* let x = 1
LetLine == <<Tok("Let"), TIdent("x"), Tok("Equal"), TInt(1)>>
\* fn f(a)
FnLine == <<Tok("Fn"), TIdent("f"), Tok("ParanLeft"), TIdent("a"), Tok("ParanRight")>>
LineTokens == {<<>>, ReturnLine, LetLine, FnLine}
Lexed(text) == SubSeq([k \in DOMAIN text |-> Line(k - 1, text[k][1], text[k][2])], 1, Len(text))
SourceLines(n) == {Lexed(text) : text \in [1..n -> (0..MaxIndent) \X LineTokens]}

ParseOutcome(r) ==
    [st |-> IF r.ok THEN "ok" ELSE "err",
     val |-> IF r.ok THEN r.v ELSE <<>>,
     err |-> IF r.ok THEN ParseErr("none") ELSE r.v,
     rest |-> r.p]

\* one-line sources written with the other tokens: the patterns of
\* Parameter::parse, the paths of Path::parse, the literal, vector and map
\* atoms, the self call and the assignment operators
PatternLines ==
    {<<Tok("Let"), Tok(open[1]), TIdent("a"), Tok("Comma"), TIdent("b"), Tok(open[2]),
       Tok("Equal"), TIdent("v")>> :
        open \in {<<"ParanLeft", "ParanRight">>, <<"BracketLeft", "BracketRight">>,
                  <<"BraceLeft", "BraceRight">>, <<"BracketLeft", "BraceRight">>}}
PathLines ==
    {<<TIdent("a"), Tok("Dot"), TIdent("b"), Tok("Equal"), TInt(3)>>,
     <<TIdent("a"), Tok("BracketLeft"), TInt(0), Tok("BracketRight"), Tok("Equal"), TInt(1)>>,
     <<TIdent("a"), Tok("Dot")>>,
     <<TIdent("a"), Tok("BracketLeft"), TInt(1)>>}
AtomLines ==
    {<<TIdent("x"), Tok(assign)>> \o atom :
        assign \in {"Equal", "PlusEqual"},
        atom \in {<<Tok("Null")>>, <<TFloat(3)>>, <<TBool(TRUE)>>, <<TChar(99)>>,
                  <<TString("s")>>,
                  <<Tok("BracketLeft"), TInt(1), Tok("Comma"), TInt(2), Tok("BracketRight")>>,
                  <<Tok("BracketLeft"), Tok("BracketRight")>>,
                  <<Tok("BraceLeft"), TIdent("a"), Tok("Equal"), TInt(1), Tok("BraceRight")>>,
                  <<Tok("BraceLeft"), Tok("BraceRight")>>,
                  <<Tok("BraceLeft"), TIdent("a"), Tok("BraceRight")>>,
                  <<Tok("Dot")>>}}
SelfCallLines ==
    {<<TIdent("x"), Tok("Colon"), TIdent("m"), Tok("ParanLeft"), TInt(1), Tok("ParanRight")>>,
     <<Tok("Return"), TIdent("x"), Tok("Colon"), TIdent("m"), Tok("ParanLeft"),
       Tok("ParanRight")>>,
     <<TIdent("x"), Tok("Colon"), TIdent("m")>>}
OneLiners ==
    {<<Line(0, 0, toks)>> : toks \in PatternLines \cup PathLines \cup AtomLines \cup SelfCallLines}

\* a block header whose tokens have been taken, and n lines after it
BlockTexts(n) ==
    {<<Line(0, 0, <<>>)>> \o SubSeq([k \in DOMAIN text |-> Line(k, text[k][1], text[k][2])],
                                   1, Len(text)) :
        text \in [1..n -> (0..MaxIndent) \X LineTokens]}

ParseInit ==
    /\ heap = <<>>
    /\ \/ \E n \in 0..MaxLines : operands \in [lines : SourceLines(n)]
       \/ operands \in [lines : OneLiners]
       \/ operands \in [lines : BlockTexts(MaxLines)]
    /\ applied = "none"
    /\ outcome = NoOutcome
    /\ CompilerIdle
    /\ RunIdle

\* parse::<Chunk>
ParseChunk ==
    /\ applied = "none"
    /\ applied' = "Chunk"
    /\ outcome' = ParseOutcome(parse_chunk(operands.lines, <<>>))
    /\ UNCHANGED <<heap, operands, compiler_vars, run_vars>>
\* parse::<Statement>
ParseStatement ==
    /\ applied = "none"
    /\ applied' = "Statement"
    /\ outcome' = ParseOutcome(parse_statement(operands.lines))
    /\ UNCHANGED <<heap, operands, compiler_vars, run_vars>>
\* parse::<Block>: the parser stands on the header line, its tokens taken
ParseBlock ==
    /\ applied = "none"
    /\ applied' = "Block"
    /\ outcome' = ParseOutcome(parse_block(operands.lines))
    /\ UNCHANGED <<heap, operands, compiler_vars, run_vars>>

ParseNext == ParseChunk \/ ParseStatement \/ ParseBlock

ParseSpec == ParseInit /\ [][ParseNext]_vars

\* ========================================================= claims C19-C20
SimpleLine(l) == l.tokens \in {ReturnLine, LetLine}
StatementKind(l) == IF l.tokens = LetLine THEN "LetBinding" ELSE "Return"

\* a `fn` header, its block of one-line statements at one deeper indent, and
\* one more statement back at the header's indent
FnThenStatement(lines) ==
    /\ Len(lines) >= 3
    /\ lines[1].tokens = FnLine
    /\ lines[2].indent > lines[1].indent
    /\ \A k \in 2..(Len(lines) - 1) :
          lines[k].indent = lines[2].indent /\ SimpleLine(lines[k])
    /\ Last(lines).indent = lines[1].indent
    /\ SimpleLine(Last(lines))

\* C19: parsing a `fn` statement consumes exactly its header line and the
\* lines of its indented block.  When the block is followed by a line at the
\* header's indent, Statement::parse succeeds and leaves that line with all
\* its tokens, and Chunk::parse of the same text succeeds with two
\* statements, the `fn` and the statement of the following line.
C19_FnLeavesNextLine ==
    FnThenStatement(operands.lines) =>
        /\ applied = "Statement" =>
              /\ outcome.st = "ok"
              /\ outcome.val.st = "Fn"
              /\ Len(outcome.val.body) = Len(operands.lines) - 2
              /\ outcome.rest = <<Last(operands.lines)>>
        /\ applied = "Chunk" =>
              /\ outcome.st = "ok"
              /\ Len(outcome.val) = 2
              /\ outcome.val[1].st = "Fn"
              /\ outcome.val[2].st = StatementKind(Last(operands.lines))
              /\ outcome.rest = <<>>

\* the parser stands on a header line whose tokens have all been taken
HeaderTaken(lines) == lines # <<>> /\ lines[1].tokens = <<>>
NoBlock(lines) == Len(lines) = 1 \/ lines[2].indent <= lines[1].indent
\* the first line after the header whose indent is below `low`, or the end
BlockEnd(lines, low) ==
    CHOOSE k \in 2..(Len(lines) + 1) :
        /\ \A j \in 2..(k - 1) : lines[j].indent >= low
        /\ k <= Len(lines) => lines[k].indent < low
\* the block is the run of lines down to BlockEnd: when each of them is a
\* one-line statement, Block::parse succeeds with one statement per line, in
\* order, and leaves the lines from BlockEnd on untouched
BlockIsRun(lines, low) ==
    LET k == BlockEnd(lines, low)
    IN (\A j \in 2..(k - 1) : SimpleLine(lines[j])) =>
          /\ outcome.st = "ok"
          /\ Len(outcome.val) = k - 2
          /\ \A j \in 2..(k - 1) : outcome.val[j - 1].st = StatementKind(lines[j])
          /\ outcome.rest = SubSeq(lines, k, Len(lines))
ExpectedIndentedBlock ==
    outcome.st = "err" /\ outcome.err = ParseErr("ExpectedIndentedBlock")
\* after one-line statements of the block, if any, comes a `fn` line whose
\* own block of one-line statements is followed by a line with tokens
FnThenLine(lines) ==
    \E i \in 2..(Len(lines) - 2) :
        /\ \A j \in 2..(i - 1) : lines[j].indent >= lines[2].indent /\ SimpleLine(lines[j])
        /\ lines[i].indent >= lines[2].indent
        /\ lines[i].tokens = FnLine
        /\ lines[i + 1].indent > lines[i].indent
        /\ \E m \in (i + 2)..Len(lines) :
              /\ \A j \in (i + 1)..(m - 1) :
                    lines[j].indent >= lines[i + 1].indent /\ SimpleLine(lines[j])
              /\ lines[m].indent < lines[i + 1].indent
              /\ lines[m].tokens # <<>>
ExpectedNewLine == outcome.st = "err" /\ outcome.err = ParseErr("ExpectedNewLine")

OperandNames == <<"a", "b", "c">>
PrefixLists == {<<>>, <<"Not">>, <<"Minus">>, <<"Not", "Minus">>}
BinaryTokens == UNION {LAYERS[k] : k \in DOMAIN LAYERS}
\* the shapes: the operators between the operands and the prefixes of each
ExprShapes ==
    UNION {[ops : [1..n -> BinaryTokens], prefixes : [1..(n + 1) -> PrefixLists]] :
              n \in 0..(Len(OperandNames) - 1)}
RECURSIVE Concat(_)
Concat(seqs) == IF seqs = <<>> THEN <<>> ELSE Head(seqs) \o Concat(Tail(seqs))
OperandTokens(shape, k) ==
    [j \in DOMAIN shape.prefixes[k] |-> Tok(shape.prefixes[k][j])] \o <<TIdent(OperandNames[k])>>
ExprTokens(shape) ==
    OperandTokens(shape, 1)
        \o Concat([k \in DOMAIN shape.ops |->
                      <<Tok(shape.ops[k])>> \o OperandTokens(shape, k + 1)])

ExprInit ==
    /\ heap = <<>>
    /\ \E shape \in ExprShapes :
          operands = [lines |-> <<Line(0, 0, ExprTokens(shape))>>, shape |-> shape]
    /\ applied = "none"
    /\ outcome = NoOutcome
    /\ CompilerIdle
    /\ RunIdle

\* parse::<Expression>
ParseExpression ==
    /\ applied = "none"
    /\ applied' = "Expression"
    /\ outcome' = ParseOutcome(parse_expression(operands.lines))
    /\ UNCHANGED <<heap, operands, compiler_vars, run_vars>>

ExprSpec == ExprInit /\ [][ParseExpression]_vars

\* ================================================================ claim C21
\* the layer the specification gives an operator, from loosest to tightest
Precedence(op) ==
    CASE op \in {"And", "Or"} -> 0
      [] op \in {"EqualEqual", "ExclamationEqual", "Greater", "Less",
                 "GreaterEqual", "LessEqual", "Is", "In"} -> 1
      [] op \in {"Plus", "Minus"} -> 2
      [] op \in {"Star", "Slash", "Percent"} -> 3
      [] op = "Exponent" -> 4
      [] op = "As" -> 5
\* operand k under its prefix operators, the innermost written last
Prefixed(prefixes, e) ==
    CASE prefixes = <<>> -> e
      [] Len(prefixes) = 1 -> EUnary(0, prefixes[1], e)
      [] Len(prefixes) = 2 -> EUnary(0, prefixes[1], EUnary(0, prefixes[2], e))
OperandOf(shape, k) == Prefixed(shape.prefixes[k], Var(OperandNames[k]))
Grouped(shape) ==
    CASE Len(shape.ops) = 0 -> OperandOf(shape, 1)
      [] Len(shape.ops) = 1 ->
            EBinary(0, shape.ops[1], OperandOf(shape, 1), OperandOf(shape, 2))
      [] Len(shape.ops) = 2 ->
            IF Precedence(shape.ops[2]) > Precedence(shape.ops[1])
            THEN EBinary(0, shape.ops[1], OperandOf(shape, 1),
                         EBinary(0, shape.ops[2], OperandOf(shape, 2), OperandOf(shape, 3)))
            ELSE EBinary(0, shape.ops[2],
                         EBinary(0, shape.ops[1], OperandOf(shape, 1), OperandOf(shape, 2)),
                         OperandOf(shape, 3))

\* C21: `a op1 b op2 c` parses to Binary(op1, a, Binary(op2, b, c)) when
\* op2 is in a strictly higher layer than op1 and to
\* Binary(op2, Binary(op1, a, b), c) when it is in the same or a lower one,
\* and a prefix operator applies to its operand alone, whatever binary
\* operator follows; the whole line is taken.
C21_PrecedenceLayers ==
    applied = "Expression" =>
        /\ outcome.st = "ok"
        /\ outcome.val = Grouped(operands.shape)
        /\ outcome.rest = <<Line(0, 0, <<>>)>>
\* a + -b * c is a + ((-b) * c)
C21_Witness ==
    /\ applied = "Expression"
    /\ operands.shape = [ops |-> <<"Plus", "Star">>, prefixes |-> <<<<>>, <<"Minus">>, <<>>>>]
    /\ outcome.val = EBinary(0, "Plus", Var("a"),
                             EBinary(0, "Star", EUnary(0, "Minus", Var("b")), Var("c")))

\* ================================================================ claim C22
\* a step or a host call has pushed one frame
Pushes == Len(interpreter'.call_stack) = Len(interpreter.call_stack) + 1

\* C22: after call(func, args, dst) the pushed frame has idx = 0, the given
\* dst recorded and a register file of exactly closure.registers + 1 slots,
\* for every closure: with or without varargs, for every argument count, and
\* for parameters = 0 too (so the call of a parameter program's function
\* does push a frame).
C22_CallPushesFrame ==
    /\ [][Pushes =>
            LET new == call_frame(interpreter')
            IN /\ new.idx = 0
               /\ new.dst = (IF Executes("Call") THEN Fetched.dst ELSE NoneOpt)
               /\ Len(new.stack) = new.closure.registers + 1]_vars
    /\ [][CallsParamFn => Pushes]_vars

\* ================================================================ claim C23
ReturningFrame == call_frame(interpreter)
PoppedStack == Front(interpreter.call_stack)
\* the caller's frame with register reg holding value
CallerWith(reg, value) ==
    [PoppedStack EXCEPT ![Depth - 1].stack[reg + 1] = value]
\* the name the caller's constant pool gives global k
CallerGlobal(k) == interpreter.call_stack[Depth - 1].closure.constants[k + 1].s

\* C23: Return evaluates its source in the returning frame and pops exactly
\* that frame.  When the frame recorded a dst, the value (Null when absent)
\* is written into dst as the caller's frame resolves it, its register or
\* the global its constant pool names, every other register and global and
\* the caller's program counter stay as they were, and run() goes on with
\* nothing handed to it.  When no dst was recorded nothing is written, and
\* the value is what run() returns when the frame was its entry frame.
C23_ReturnWritesDst ==
    [][Executes("Return") =>
        IF IsSome(ReturningFrame.dst)
        THEN /\ running' = running
             /\ IF ReturningFrame.dst.loc = "Register"
                THEN /\ interpreter'.call_stack =
                           CallerWith(ReturningFrame.dst.reg, unwrap_or_default(ReturnValue))
                     /\ interpreter'.globals = interpreter.globals
                ELSE /\ interpreter'.call_stack = PoppedStack
                     /\ interpreter'.globals =
                           [n \in DOMAIN interpreter.globals \cup {CallerGlobal(ReturningFrame.dst.k)} |->
                               IF n = CallerGlobal(ReturningFrame.dst.k)
                               THEN unwrap_or_default(ReturnValue)
                               ELSE interpreter.globals[n]]
        ELSE /\ interpreter' = [interpreter EXCEPT !.call_stack = PoppedStack]
             /\ Depth = running.offset =>
                   running'.status = "returned" /\ running'.result = ReturnValue]_vars
\* a function called with a global as dst has returned 7: the caller's frame
\* is on top, at the instruction after the call, and the global holds 7
C23_Witness ==
    /\ compiled = GlobalDstClosure("g", SrcInt(7))
    /\ running.status = "running"
    /\ Depth = 1
    /\ call_frame(interpreter).idx = 2
    /\ "g" \in DOMAIN interpreter.globals
    /\ interpreter.globals["g"] = VInt(7)

\* ================================================================ claim C24
\* a value with the contents of the containers it points to
RECURSIVE Deep(_, _)
Deep(h, v) ==
    IF v.t \in {"Tuple", "Vector"}
    THEN [t |-> v.t, elems |-> [k \in DOMAIN h[v.p].e |-> Deep(h, h[v.p].e[k])]]
    ELSE v
\* the value of an element expression
RECURSIVE ValueOf(_)
ValueOf(expr) ==
    CASE expr.ek = "Binary" -> VInt(expr.left.atom.i + expr.right.atom.i)
      [] expr.ek = "Atom" /\ expr.atom.ak = "Int" -> VInt(expr.atom.i)
      [] expr.ek = "Atom" /\ expr.atom.ak \in {"Tuple", "Vector"} ->
            [t |-> expr.atom.ak,
             elems |-> [k \in DOMAIN expr.atom.exprs |-> ValueOf(expr.atom.exprs[k])]]
\* the Tuple / Vector instruction that builds the returned literal
Builders(code, kind) == {k \in DOMAIN code : code[k].op = kind}

\* C24: for a tuple or vector literal with element expressions e0..e(n-1),
\* elements that need temporary registers included, the Tuple / Vector
\* instruction emitted for it has amount = n, and the container the program
\* builds has n elements, element i being the value of e_i.
C24_LiteralElements ==
    (IsSome(ast) /\ ast \in LiteralPrograms) =>
        LET literal == ast.stats[1].expr
        IN /\ running.status \notin {"panic", "error"}
           /\ IsSome(compiled) =>
                 LET code == compiled.code
                     last == CHOOSE k \in Builders(code, literal.atom.ak) :
                                \A j \in Builders(code, literal.atom.ak) : j <= k
                 IN /\ Builders(code, literal.atom.ak) # {}
                    /\ code[last].amount = Len(literal.atom.exprs)
           /\ running.status = "returned" =>
                 Deep(heap, running.result) = ValueOf(literal)

\* ---------------------------------------------------------------- claim C25
\* the addresses of a closure whose instruction is on line ln
AddrsAt(cl, ln) == {a \in 0..(Len(cl.code) - 1) : cl.lines[a + 1] = ln}
Highest(S) == CHOOSE a \in S : \A b \in S : b <= a
Lowest(S) == CHOOSE a \in S : \A b \in S : a <= b
\* the exit of the loop on line ln: the address after its closing continue
ExitOf(cl, ln) == Highest(AddrsAt(cl, ln)) + 1
\* the start of the loop on line ln: its first instruction, and for a
\* for loop the instruction after the call of iter
StartOf(cl, kind, ln) ==
    IF kind = "For"
    THEN Lowest({a \in AddrsAt(cl, ln) : cl.code[a + 1].op = "Call"}) + 1
    ELSE Lowest(AddrsAt(cl, ln))
\* what the placeholder on line ln of a loop program has to become
PatchedTo(cl, loop, ln) ==
    LET role == ln % 10
        item == loop.body[ln \div 10]
        inner == ln - role + LoopLn.inner
    IN CASE role = LoopLn.brk -> BcJump(ExitOf(cl, loop.ln))
         [] role = LoopLn.cont -> BcJump(StartOf(cl, loop.st, loop.ln))
         [] role = LoopLn.inner_brk -> BcJump(ExitOf(cl, inner))
         [] role = LoopLn.inner_cont -> BcJump(StartOf(cl, item.st, inner))
JumpRoles == {LoopLn.brk, LoopLn.cont, LoopLn.inner_brk, LoopLn.inner_cont}
Placeholders(cl) ==
    {a \in 0..(Len(cl.code) - 1) :
        cl.lines[a + 1] > 10 /\ cl.lines[a + 1] % 10 \in JumpRoles}
NothingPending(c) ==
    \A k \in 1..Len(c.frame_stack) : \A j \in 1..Len(c.frame_stack[k].scopes) :
        /\ c.frame_stack[k].scopes[j].breaks = {}
        /\ c.frame_stack[k].scopes[j].continues = {}

\* C25: in the code of a compiled loop, every break of its body is a jump to
\* the exit of the loop and every continue a jump to its start, inside nested
\* if blocks too; the breaks and continues of a nested loop jump to the exit
\* and the start of the nested loop; and once the loop is compiled no scope
\* of the compiler holds a pending break or continue.
C25_LoopPlaceholders ==
    (ast \in LoopPrograms /\ IsSome(compiled)) =>
        /\ Placeholders(compiled) # {}
             \/ \A k \in 1..Len(ast.stats[1].body) : ast.stats[1].body[k].st = "Call"
        /\ \A a \in Placeholders(compiled) :
              compiled.code[a + 1] = PatchedTo(compiled, ast.stats[1], compiled.lines[a + 1])
        /\ NothingPending(compile_statement(CompilerStart, ast.stats[1]).c)

C25_Program ==
    Chunk(<<Loop("For", LoopLn.loop,
                 <<Nested("if_if", 10 + LoopLn.other, SBreak(10 + LoopLn.brk)),
                   Loop("While", 20 + LoopLn.inner,
                        <<Nested("else", 20 + LoopLn.other, SContinue(20 + LoopLn.inner_cont))>>)>>)>>)
C25_Witness ==
    /\ ast = C25_Program
    /\ running.status = "compiled"
    /\ \E a \in AddrsAt(compiled, 10 + LoopLn.brk) : compiled.code[a + 1].op = "Jump"
    /\ \E a \in AddrsAt(compiled, 20 + LoopLn.inner_cont) : compiled.code[a + 1].op = "Jump"

\* ------------------------------------------------- scopes and registers
\* Frame::push_scope, new_register, alloc_registers, new_local, pop_scope and
\* pop_scope_loop, Compiler::push_frame and pop_frame, and the compilation of
\* an identifier path, called in any order on a fresh compiler, up to MaxOps
\* calls, MaxScopes open scopes in a frame and MaxFrames frames above the
\* first.  `registers` is a u8: an addition past 255 panics in a build with
\* overflow checks and wraps without them.
\* For every frame, operands.pushed keeps the register counter read when
\* each of its open scopes was pushed, and operands.gone the names that were
\* bound in a scope of the frame that has been popped.
MaxOps == 6
MaxScopes == 3
AllocAmounts == {0, 2, 250}
LocalNames == {"x", "y"}
Called == operands.ops < MaxOps /\ cstatus = "ok"
Ghost(pushed, gone) ==
    operands' = [ops |-> operands.ops + 1,
                 pushed |-> SetLast(operands.pushed, pushed),
                 gone |-> SetLast(operands.gone, gone)]
Pushed == Last(operands.pushed)
Gone == Last(operands.gone)
Counted == Ghost(Pushed, Gone)
Overflows(amount) == frame(compiler).registers + amount > 255
FramePanic == cstatus' = "panic" /\ UNCHANGED <<compiler, ret, outcome>> /\ Counted
\* the names bound in the scope a pop removes
Leaving == IF frame(compiler).scopes = <<>> THEN {} ELSE DOMAIN Last(frame(compiler).scopes).locals

ScopeInit ==
    /\ heap = <<>>
    /\ operands = [ops |-> 0, pushed |-> <<<<0>>, <<0>>>>, gone |-> <<{}, {}>>]
    /\ outcome = NoOutcome
    /\ applied = "none"
    /\ compiler = CompilerStart
    /\ cstatus = "ok"
    /\ ret = NoRet
    /\ RunIdle

PushScope ==
    /\ Called /\ Len(frame(compiler).scopes) < MaxScopes
    /\ applied' = "push_scope"
    /\ compiler' = with_frame(compiler, push_scope(frame(compiler)))
    /\ Ghost(Append(Pushed, frame(compiler).registers), Gone)
    /\ UNCHANGED <<heap, outcome, cstatus, ret, run_vars>>

PopScope ==
    /\ Called
    /\ applied' = "pop_scope"
    /\ compiler' = with_frame(compiler, pop_scope(frame(compiler)))
    /\ Ghost(IF Pushed = <<>> THEN <<>> ELSE Front(Pushed), Gone \cup Leaving)
    /\ UNCHANGED <<heap, outcome, cstatus, ret, run_vars>>

PopScopeLoop ==
    /\ Called
    /\ applied' = "pop_scope_loop"
    /\ compiler' = with_frame(compiler, pop_scope_loop(frame(compiler)).f)
    /\ Ghost(IF Pushed = <<>> THEN <<>> ELSE Front(Pushed), Gone \cup Leaving)
    /\ UNCHANGED <<heap, outcome, cstatus, ret, run_vars>>

NewRegister ==
    /\ Called
    /\ applied' = "new_register"
    /\ UNCHANGED <<heap, run_vars>>
    /\ \/ /\ Overflows(1)
          /\ FramePanic
       \/ /\ LET r == new_register(frame(compiler))
             IN compiler' = with_frame(compiler, r.f) /\ Returning(r.reg)
          /\ Counted
          /\ UNCHANGED <<cstatus, outcome>>

AllocRegisters(amount) ==
    /\ Called
    /\ applied' = "alloc_registers"
    /\ UNCHANGED <<heap, run_vars>>
    /\ \/ /\ Overflows(amount)
          /\ FramePanic
       \/ /\ compiler' = with_frame(compiler, alloc_registers(frame(compiler), amount).f)
          /\ Counted
          /\ UNCHANGED <<cstatus, ret, outcome>>

\* without a scope, set_local's scope_mut().unwrap() panics
NewLocal(name) ==
    /\ Called
    /\ applied' = "new_local"
    /\ UNCHANGED <<heap, run_vars>>
    /\ \/ /\ get_local(frame(compiler), name) < 0
          /\ Overflows(1) \/ frame(compiler).scopes = <<>>
          /\ FramePanic
       \/ /\ get_local(frame(compiler), name) >= 0 \/ frame(compiler).scopes # <<>>
          /\ LET r == new_local(frame(compiler), name)
             IN compiler' = with_frame(compiler, r.f) /\ Returning(r.reg)
          /\ Counted
          /\ UNCHANGED <<cstatus, outcome>>

\* Compiler::push_frame, as the compilation of a `fn` calls it
OpenFrame ==
    /\ Called /\ Len(compiler.frame_stack) <= MaxFrames
    /\ applied' = "push_frame"
    /\ compiler' = push_frame(compiler)
    /\ operands' = [ops |-> operands.ops + 1,
                    pushed |-> Append(operands.pushed, <<0>>),
                    gone |-> Append(operands.gone, {})]
    /\ UNCHANGED <<heap, outcome, cstatus, ret, run_vars>>

\* Compiler::pop_frame, with a frame left under the popped one
CloseFrame ==
    /\ Called /\ Len(compiler.frame_stack) > 1
    /\ applied' = "pop_frame"
    /\ compiler' = pop_frame(compiler)
    /\ operands' = [ops |-> operands.ops + 1,
                    pushed |-> Front(operands.pushed),
                    gone |-> Front(operands.gone)]
    /\ UNCHANGED <<heap, outcome, cstatus, ret, run_vars>>

\* Located<Path>::compile of Path::Ident(name); outcome.val is the Location
CompileIdent(name) ==
    /\ Called
    /\ applied' = "compile_path"
    /\ LET r == compile_path(compiler, PathIdent(name), 1)
       IN /\ compiler' = r.c
          /\ outcome' = [st |-> "ok", val |-> r.loc, err |-> [kind |-> name]]
    /\ Counted
    /\ UNCHANGED <<heap, cstatus, ret, run_vars>>

ScopeNext ==
    \/ PushScope
    \/ PopScope
    \/ PopScopeLoop
    \/ NewRegister
    \/ \E amount \in AllocAmounts : AllocRegisters(amount)
    \/ \E name \in LocalNames : NewLocal(name)
    \/ OpenFrame
    \/ CloseFrame
    \/ \E name \in LocalNames : CompileIdent(name)
ScopeSpec == ScopeInit /\ [][ScopeNext]_vars

\* ---------------------------------------------------------------- claim C26
Popped == applied' \in {"pop_scope", "pop_scope_loop"} /\ Pushed # <<>>
SameFrame == Len(compiler'.frame_stack) = Len(compiler.frame_stack)

\* C26: whatever scope and register calls are made on a frame, a pop leaves
\* the register counter at the value it had when the popped scope was pushed,
\* max_registers never decreases and is never below the register counter,
\* and closure.registers equals max_registers.
C26_RegisterBookkeeping ==
    [][/\ Popped => frame(compiler').registers = Last(Pushed)
       /\ SameFrame => frame(compiler').max_registers >= frame(compiler).max_registers
       /\ frame(compiler').max_registers >= frame(compiler').registers
       /\ frame(compiler').closure.registers = frame(compiler').max_registers]_vars

\* a scope pushed at two registers is popped after more were taken in it
C26_Witness ==
    /\ applied = "pop_scope"
    /\ Len(Pushed) = 1
    /\ frame(compiler).registers = 2
    /\ frame(compiler).max_registers > 2

\* ---------------------------------------------------------------- claim C27
\* the registers the open scopes of the current frame bind a name to
BoundTo(name) ==
    {frame(compiler).scopes[k].locals[name] :
        k \in {j \in 1..Len(frame(compiler).scopes) : name \in DOMAIN frame(compiler).scopes[j].locals}}
BoundBelow(name) ==
    \E k \in 1..(Len(compiler.frame_stack) - 1) :
        get_local(compiler.frame_stack[k], name) >= 0
Compiled == applied = "compile_path"
Location == outcome.val
Ident == outcome.err.kind

\* C27: an identifier compiles to Register(r) exactly when an open scope of
\* the current frame binds it to r; otherwise, and so when only a popped scope
\* or a frame below bound it, it compiles to Global(k) with constants[k] the
\* name.
C27_IdentResolution ==
    Compiled =>
        IF BoundTo(Ident) # {}
        THEN Location.loc = "Register" /\ Location.reg \in BoundTo(Ident)
        ELSE /\ Location.loc = "Global"
             /\ Location.k < Len(frame(compiler).closure.constants)
             /\ frame(compiler).closure.constants[Location.k + 1] = VString(Ident)

\* x, bound in a scope of the frame that was popped and in the frame below,
\* compiles to a global
C27_Witness ==
    /\ Compiled
    /\ Ident = "x"
    /\ Location.loc = "Global"
    /\ BoundBelow("x")
    /\ "x" \in Gone

\* ---------------------------------------------------------------- claim C28
\* the register the `let` on line ln binds: the destination of its last instruction
LetRegister(cl, ln) == cl.code[Highest(AddrsAt(cl, ln)) + 1].dst.reg

\* C28: a `let x = e` in a nested block, with x a local of an enclosing scope
\* of the frame, binds a local of its own: after the block the outer x still
\* holds the value it had before the block.
C28_InnerLetShadows ==
    (IsSome(ast) /\ ast \in ShadowPrograms /\ IsSome(compiled)) =>
        /\ LetRegister(compiled, 3) # LetRegister(compiled, 1)
        /\ running.status = "returned" => Deep(heap, running.result) = VInt(1)

\* ---------------------------------------------------------------- claim C29
\* C29: after `p.k = e` or `p[i] = e` on a map, or on a vector or tuple with
\* i in range, reading `p.k` or `p[i]` yields the value of e: the programs of
\* AssignPrograms run without error and return 5.
C29_AssignUpdatesContainer ==
    (IsSome(ast) /\ ast \in AssignPrograms) =>
        /\ running.status \notin {"panic", "error"}
        /\ running.status = "returned" => Deep(heap, running.result) = VInt(5)

\* ---------------------------------------------------------------- claim C30
\* C30: when run() has returned a runtime error, the call stack is as deep
\* as it was before the call() that started the run, whatever the depth at
\* which the error was raised.
C30_ErrorUnwinds ==
    running.status = "error" => Len(interpreter.call_stack) = running.offset - 1

====
